---- MODULE Spec2Model ----
(***************************************************************************)
(* A model of the CDCL core of splr: the two-watched-literal clause        *)
(* database with intrusive watch lists and in-place garbage collection     *)
(* (clause.rs), unit propagation and the search driver                     *)
(* (solver_propagate.rs), backtracking and restart control                 *)
(* (solver_rollback.rs), conflict analysis (search.rs) and the variable    *)
(* activity heap (propagator.rs).                                          *)
(*                                                                         *)
(* Conventions.  Rust vectors are 0-based; TLA+ sequences are 1-based.     *)
(* trail, trail_lim and Clause.lits are kept as sequences, so Rust         *)
(* position i is TLA+ position i+1; q_head and the trail_lim entries keep  *)
(* their Rust (0-based) values.  Clause.lit and Clause.next_watcher are    *)
(* pairs: Rust slot 0 is component 1, Rust slot 1 is component 2.  A       *)
(* ClauseId is the pair <<kind, index>> (the tag bits and index bits of    *)
(* the packed usize).  Clause index 0 of every partition is the reserved   *)
(* null record; partitions keep the records of index >= 1 as a sequence.   *)
(* Floating point activities are integers: an increment starts at          *)
(* ActivityUnit and a decay step adds one to it.                           *)
(***************************************************************************)
EXTENDS Naturals, Integers, Sequences, FiniteSets, TLC

\* ------------------------------------------------------------------ bounds
MaxClauses == 4
FirstReduction == 2
LateReduction == 100
FirstRestart == 0
ActivityUnit == 20

\* the integers handed to int2lit are -MaxLitVar .. MaxLitVar without 0
MaxLitVar == 60

\* the restart control alone is followed up to this number of conflicts
MaxConflicts == 160

\* the limit of the clause activities (1.0e20 in bump_cid), in the unit above
ActivityLimit == 2 * ActivityUnit

\* the key of the LBD stamps returns to 1 after it has passed this value
\* (10_000_000 in lbd_vec and lbd_of)
LbdKeyWrap == 1

\* --------------------------------------------------------------- constants
LFALSE == 0
LTRUE == 1
BOTTOM == 2
NULL_LIT == 0
GARBAGE_LIT == 0
RECYCLE_LIT == 1
NULL_INDEX == 0
Removable == 0
Permanent == 1
Binclause == 2
DB_INC_SIZE == 200
RestartStep == 50
BlockAfter == 100
RankBonusBound == 4
RankBonus == 1000
CO_LBD_BOUND == 5
LEVEL_BITMAP_SIZE == 256

NULL_CLAUSE == <<Removable, NULL_INDEX>>


\* ------------------------------------------------------- literal encoding
int2lit(x) == IF x < 0 THEN (-2) * x + 1 ELSE 2 * x

vi(l) == l \div 2

positive(l) == l % 2 = 0

lbool(l) == IF positive(l) THEN LTRUE ELSE LFALSE

\* variant of negate: bit 0 is set, never cleared
negate_set(l) == IF l % 2 = 0 THEN l + 1 ELSE l

\* LiteralEncoding::negate: l XOR 1
negate(l) == IF l % 2 = 0 THEN l + 1 ELSE l - 1

\* the quotient of a >= 0 by b < 0 as Rust computes it: rounded towards zero
TruncDiv(a, b) == -(a \div (-b))

\* LiteralEncoding::int
lit2int(l) == IF l % 2 = 0 THEN l \div 2 ELSE TruncDiv(l, -2)

var2lit(v, p) == IF p = LFALSE THEN 2 * v + 1 ELSE 2 * v

\* x XOR b for a lifted bool x in 0..3 and a bit b
XorBit(x, b) == IF b = 0 THEN x ELSE IF x % 2 = 0 THEN x + 1 ELSE x - 1

assigned(vs, l) == XorBit(vs[vi(l)].assign, l % 2)

id_from(kind, cix) == <<kind, cix>>

to_kind(cid) == cid[1]

to_index(cid) == cid[2]

\* ------------------------------------------------------------ sequences
RECURSIVE SeqSet(_)
SeqSet(s) == IF s = <<>> THEN {} ELSE {Head(s)} \cup SeqSet(Tail(s))

Swap(s, i, j) == [s EXCEPT ![i] = s[j], ![j] = s[i]]

Truncate(s, n) == IF n < Len(s) THEN SubSeq(s, 1, n) ELSE s

\* insertion sort, ascending: sort_unstable on a vector of integers
RECURSIVE InsertSorted(_, _)
InsertSorted(x, s) ==
    IF s = <<>> THEN <<x>>
    ELSE IF x <= Head(s) THEN <<x>> \o s
    ELSE <<Head(s)>> \o InsertSorted(x, Tail(s))

RECURSIVE SortLits(_)
SortLits(s) == IF s = <<>> THEN <<>> ELSE InsertSorted(Head(s), SortLits(Tail(s)))

\* ---------------------------------------------------------------- state
VARIABLES
    vars,            \* Solver.vars: [0..num_vars -> Var]
    trail,           \* Solver.trail
    trail_lim,       \* Solver.trail_lim
    q_head,          \* Solver.q_head
    cp,              \* Solver.cp: [kind -> ClausePack]
    var_order,       \* Solver.var_order: VarIdHeap
    counters,        \* stats[NumOfBackjump], next_restart, next_reduction, cur_restart,
                     \* num_solved_vars, var_inc, cla_inc, stats[Reduction], stats[NumOfRestart]
    an_learnt_lits,  \* Solver.an_learnt_lits
    local,           \* locals of search(): ci, d, backtrack_level, lbd
    pc,              \* position of the driver: "load", then the positions of search()
                     \* ("propagate", "branch", "simplify", "simplified" after
                     \* simplify_database, "decide", "backjump", "learn", "reduce",
                     \* "reduced" after reduce_watchers, "block"), "sat" / "unsat" when
                     \* search() has returned, "SAT" / "UNSAT" when solve() has, and
                     \* "panic" for a failed assertion or slice bound
    ok,              \* Solver.ok
    cnf,             \* the DIMACS problem: nv variables, clauses of signed integers
    given,           \* the clauses handed to add_clause so far, as literal vectors
    result,          \* the vector of the certificate built by solve()
    call             \* the last direct call of a trait method by a client of the solver:
                     \* its name, arguments and return value, and the fields before it

solver_vars == <<vars, trail, trail_lim, q_head, cp, var_order, counters, an_learnt_lits, local, pc, ok, cnf, given, result, call>>

\* Solver.num_vars
num_vars == cnf.nv

\* Var::new and Clause records
NewVar == [assign |-> BOTTOM, level |-> 0, reason |-> NULL_CLAUSE, phase |-> BOTTOM, activity |-> 0]

ClauseNew(kind, learnt, rank, v) ==
    [index |-> 0, lit |-> <<v[1], v[2]>>, next_watcher |-> <<NULL_INDEX, NULL_INDEX>>,
     lits |-> SubSeq(v, 3, Len(v)), rank |-> rank, activity |-> 0,
     kind |-> kind, dead |-> FALSE, locked |-> FALSE, learnt |-> learnt, just_used |-> FALSE]

ClausePackBuild(kind, nv) ==
    [kind |-> kind, clauses |-> <<>>,
     watcher |-> [l \in 0..(2 * nv + 1) |-> NULL_INDEX],
     touched |-> [l \in 0..(2 * nv + 1) |-> FALSE]]

decision_level(tl) == Len(tl)

num_assigns(tr) == Len(tr)

\* literal vector of a clause: the two watches, then the rest
ClauseLits(c) == c.lit \o c.lits

ClauseLen(c) == Len(c.lits) + 2

\* ------------------------------------------------- clause partitions (GC)
\* a raw pointer to a link: a watch-list head, or a next_watcher slot of a record
HeadPtr(l) == <<0, l>>

LinkPtr(cix, slot) == <<cix, slot>>

ReadPtr(pk, ptr) ==
    IF ptr[1] = 0 THEN pk.watcher[ptr[2]] ELSE pk.clauses[ptr[1]].next_watcher[ptr[2]]

\* variant of WritePtr: a write through a link inside a record is lost
WritePtrHeadsOnly(pk, ptr, val) ==
    IF ptr[1] = 0 THEN [pk EXCEPT !.watcher[ptr[2]] = val] ELSE pk

WritePtr(pk, ptr, val) ==
    IF ptr[1] = 0 THEN [pk EXCEPT !.watcher[ptr[2]] = val]
    ELSE [pk EXCEPT !.clauses[ptr[1]].next_watcher[ptr[2]] = val]

\* new_clause that links the record into the list of its first watch only
new_clause_one_watch(pk, v, rank, learnt, locked) ==
    LET rl == negate(RECYCLE_LIT)
        w0 == negate(v[1])
        w1 == negate(v[2])
    IN  IF pk.watcher[rl] # NULL_INDEX
        THEN LET cix == pk.watcher[rl]
                 pk1 == [pk EXCEPT !.watcher[rl] = pk.clauses[cix].next_watcher[1]]
                 c == [pk1.clauses[cix] EXCEPT
                          !.lit = <<v[1], v[2]>>,
                          !.lits = SubSeq(v, 3, Len(v)),
                          !.rank = rank,
                          !.kind = 0,
                          !.dead = FALSE,
                          !.just_used = FALSE,
                          !.locked = locked,
                          !.learnt = learnt,
                          !.activity = 0,
                          !.next_watcher = <<pk1.watcher[w0], pk1.watcher[w1]>>]
             IN  [pack |-> [pk1 EXCEPT !.clauses[cix] = c,
                                       !.watcher = [pk1.watcher EXCEPT ![w0] = cix]],
                  cid |-> id_from(pk.kind, cix)]
        ELSE LET cix == Len(pk.clauses) + 1
                 c == [ClauseNew(pk.kind, learnt, rank, v) EXCEPT
                          !.locked = locked,
                          !.index = cix,
                          !.next_watcher = <<pk.watcher[w0], pk.watcher[w1]>>]
             IN  [pack |-> [pk EXCEPT !.clauses = Append(pk.clauses, c),
                                      !.watcher = [pk.watcher EXCEPT ![w0] = cix]],
                  cid |-> id_from(pk.kind, cix)]

\* GC::new_clause: take the head of the recycle list, or push a fresh record
new_clause(pk, v, rank, learnt, locked) ==
    LET rl == negate(RECYCLE_LIT)
        w0 == negate(v[1])
        w1 == negate(v[2])
    IN  IF pk.watcher[rl] # NULL_INDEX
        THEN LET cix == pk.watcher[rl]
                 pk1 == [pk EXCEPT !.watcher[rl] = pk.clauses[cix].next_watcher[1]]
                 c == [pk1.clauses[cix] EXCEPT
                          !.lit = <<v[1], v[2]>>,
                          !.lits = SubSeq(v, 3, Len(v)),
                          !.rank = rank,
                          !.kind = 0,
                          !.dead = FALSE,
                          !.just_used = FALSE,
                          !.locked = locked,
                          !.learnt = learnt,
                          !.activity = 0,
                          !.next_watcher = <<pk1.watcher[w0], pk1.watcher[w1]>>]
             IN  [pack |-> [pk1 EXCEPT !.clauses[cix] = c,
                                       !.watcher = [[pk1.watcher EXCEPT ![w0] = cix] EXCEPT ![w1] = cix]],
                  cid |-> id_from(pk.kind, cix)]
        ELSE LET cix == Len(pk.clauses) + 1
                 c == [ClauseNew(pk.kind, learnt, rank, v) EXCEPT
                          !.locked = locked,
                          !.index = cix,
                          !.next_watcher = <<pk.watcher[w0], pk.watcher[w1]>>]
             IN  [pack |-> [pk EXCEPT !.clauses = Append(pk.clauses, c),
                                      !.watcher = [[pk.watcher EXCEPT ![w0] = cix] EXCEPT ![w1] = cix]],
                  cid |-> id_from(pk.kind, cix)]

\* ClauseList::push_garbage on record cix, slot index (1 or 2); returns the
\* partition and the link that was in the slot
push_garbage(pk, cix, index) ==
    LET gl == negate(GARBAGE_LIT)
        other == 3 - index
        c == pk.clauses[cix]
        c1 == [c EXCEPT !.lit[index] = GARBAGE_LIT]
        next == c.next_watcher[index]
    IN  IF c1.lit[other] = GARBAGE_LIT
        THEN [pack |-> [pk EXCEPT !.clauses[cix] =
                            [c1 EXCEPT !.next_watcher[index] = c1.next_watcher[other]]],
              next |-> next]
        ELSE [pack |-> [pk EXCEPT !.clauses[cix] =
                            [c1 EXCEPT !.next_watcher[index] = pk.watcher[gl]],
                                  !.watcher[gl] = c1.index],
              next |-> next]

\* variant of gc_sweep: the list is left as it is
gc_sweep_skip(pk, l, pri, ci) == pk

\* the inner while loop of garbage_collect over the list of literal l
RECURSIVE gc_sweep(_, _, _, _)
gc_sweep(pk, l, pri, ci) ==
    IF ci = NULL_INDEX THEN pk
    ELSE LET c == pk.clauses[ci] IN
         IF ~c.dead
         THEN LET pri1 == LinkPtr(ci, IF vi(c.lit[1]) # vi(l) THEN 2 ELSE 1)
              IN  gc_sweep(pk, l, pri1, ReadPtr(pk, pri1))
         ELSE LET r == push_garbage(pk, ci, IF negate(c.lit[1]) # l THEN 2 ELSE 1)
                  pk1 == WritePtr(r.pack, pri, r.next)
              IN  gc_sweep(pk1, l, pri, ReadPtr(pk1, pri))

\* variant of gc_lists: the touched flag of a swept list stays set
RECURSIVE gc_lists_keep_touched(_, _)
gc_lists_keep_touched(pk, l) ==
    IF l \notin DOMAIN pk.touched THEN pk
    ELSE IF pk.touched[l]
         THEN gc_lists_keep_touched(gc_sweep(pk, l, HeadPtr(l), pk.watcher[l]), l + 1)
         ELSE gc_lists_keep_touched(pk, l + 1)

\* the for loop of garbage_collect over the ordinary literals
RECURSIVE gc_lists(_, _)
gc_lists(pk, l) ==
    IF l \notin DOMAIN pk.touched THEN pk
    ELSE IF pk.touched[l]
         THEN LET pk1 == [pk EXCEPT !.touched[l] = FALSE]
              IN  gc_lists(gc_sweep(pk1, l, HeadPtr(l), pk1.watcher[l]), l + 1)
         ELSE gc_lists(pk, l + 1)

\* the second loop of garbage_collect: move fully unlinked records to the recycle list
RECURSIVE gc_recycle(_, _, _)
gc_recycle(pk, pri, ci) ==
    IF ci = NULL_INDEX THEN pk
    ELSE LET c == pk.clauses[ci]
             rl == negate(RECYCLE_LIT)
         IN  IF c.lit[1] = GARBAGE_LIT /\ c.lit[2] = GARBAGE_LIT
             THEN LET next == c.next_watcher[1]
                      pk1 == WritePtr(pk, pri, next)
                      c1 == [pk1.clauses[ci] EXCEPT
                                !.lit = <<RECYCLE_LIT, RECYCLE_LIT>>,
                                !.next_watcher = <<pk1.watcher[rl], pk1.watcher[rl]>>,
                                !.locked = TRUE]
                      pk2 == [pk1 EXCEPT !.clauses[ci] = c1, !.watcher[rl] = ci]
                  IN  gc_recycle(pk2, pri, next)
             ELSE LET index == IF c.lit[1] # GARBAGE_LIT THEN 2 ELSE 1
                  IN  gc_recycle(pk, LinkPtr(ci, index), c.next_watcher[index])

garbage_collect(pk) ==
    LET gl == negate(GARBAGE_LIT)
        pk1 == gc_lists(pk, 2)
    IN  gc_recycle(pk1, HeadPtr(gl), pk1.watcher[gl])

\* the key of one LBD computation: the last key + 1, back to 1 once the last
\* key has passed LbdKeyWrap
lbd_key(seen) == IF LbdKeyWrap < seen[0] THEN 1 ELSE seen[0] + 1

\* the marking loop of lbd_vec, lbd_of and reset_lbd over the literals ls: a
\* level other than 0 whose stamp is not key is stamped and counted
RECURSIVE lbd_mark(_, _, _, _, _)
lbd_mark(seen, vs, ls, key, cnt) ==
    IF ls = <<>> THEN [seen |-> seen, cnt |-> cnt]
    ELSE LET lv == vs[vi(Head(ls))].level
         IN  IF seen[lv] # key /\ lv # 0
             THEN lbd_mark([seen EXCEPT ![lv] = key], vs, Tail(ls), key, cnt + 1)
             ELSE lbd_mark(seen, vs, Tail(ls), key, cnt)

\* the result of one LBD computation with the stamps r: lbd_seen[0] = key
lbd_done(S, r, key) ==
    [st |-> [S EXCEPT !.cnt.lbd_seen = [r.seen EXCEPT ![0] = key]], cnt |-> r.cnt]

\* ClauseManagement::lbd_vec
lbd_vec(S, v) ==
    lbd_done(S, lbd_mark(S.cnt.lbd_seen, S.vars, v, lbd_key(S.cnt.lbd_seen), 0),
             lbd_key(S.cnt.lbd_seen))

\* ClauseManagement::lbd_of: the two watches, then the rest
lbd_of(S, c) ==
    lbd_done(S, lbd_mark(S.cnt.lbd_seen, S.vars, ClauseLits(c), lbd_key(S.cnt.lbd_seen), 0),
             lbd_key(S.cnt.lbd_seen))

\* the loop of reset_lbd over the records from i on: the key of a record is its
\* index, temp is shared by the records
RECURSIVE reset_lbd_from(_, _, _, _)
reset_lbd_rank(pk, vs, i, r) ==
    reset_lbd_from([pk EXCEPT !.clauses[i].rank = r.cnt], vs, i + 1, r.seen)

reset_lbd_from(pk, vs, i, temp) ==
    IF i > Len(pk.clauses) THEN pk
    ELSE IF pk.clauses[i].dead THEN reset_lbd_from(pk, vs, i + 1, temp)
    ELSE reset_lbd_rank(pk, vs, i,
                        lbd_mark(temp, vs, ClauseLits(pk.clauses[i]), pk.clauses[i].index, 0))

\* GC::reset_lbd
reset_lbd(pk, vs) == reset_lbd_from(pk, vs, 1, [i \in DOMAIN vs |-> 0])


\* ------------------------------------------------------ activity heap
\* VarIdHeap::new(n, init)
VarIdHeapNew(n, init) ==
    [heap |-> [i \in 0..n |-> i], idxs |-> [i \in 0..n |-> IF i = 0 THEN init ELSE i]]

heap_contains(h, v) == h.idxs[v] <= h.idxs[0]

heap_reset(h) == [heap |-> [i \in DOMAIN h.heap |-> i], idxs |-> [i \in DOMAIN h.idxs |-> i]]

RECURSIVE percolate_up_loop(_, _, _, _)
percolate_up_loop(h, vs, q, vq) ==
    LET p == q \div 2 IN
    IF p = 0
    THEN [h EXCEPT !.heap[q] = vq, !.idxs[vq] = q]
    ELSE LET vp == h.heap[p] IN
         IF vs[vp].activity < vs[vq].activity
         THEN percolate_up_loop([h EXCEPT !.heap[q] = vp, !.idxs[vp] = q], vs, p, vq)
         ELSE [h EXCEPT !.heap[q] = vq, !.idxs[vq] = q]

percolate_up(h, vs, start) == percolate_up_loop(h, vs, start, h.heap[start])

RECURSIVE percolate_down_loop(_, _, _, _)
percolate_down_loop(h, vs, i, v) ==
    LET n == h.idxs[0]
        l == 2 * i
        r == l + 1
    IN  IF l < n
        THEN LET vl == h.heap[l]
                 target == IF r < n /\ vs[vl].activity < vs[h.heap[r]].activity THEN r ELSE l
                 vc == h.heap[target]
             IN  IF vs[v].activity < vs[vc].activity
                 THEN percolate_down_loop([h EXCEPT !.heap[i] = vc, !.idxs[vc] = i], vs, target, v)
                 ELSE [h EXCEPT !.heap[i] = v, !.idxs[v] = i]
        ELSE [h EXCEPT !.heap[i] = v, !.idxs[v] = i]

percolate_down(h, vs, start) == percolate_down_loop(h, vs, start, h.heap[start])

heap_update(h, vs, v) == IF heap_contains(h, v) THEN percolate_up(h, vs, h.idxs[v]) ELSE h

\* variant of heap_insert: a variable outside the heap is not put back
heap_insert_contained(h, vs, v) ==
    IF heap_contains(h, v) THEN percolate_up(h, vs, h.idxs[v]) ELSE h

heap_insert(h, vs, v) ==
    IF heap_contains(h, v) THEN percolate_up(h, vs, h.idxs[v])
    ELSE LET i == h.idxs[v]
             n == h.idxs[0] + 1
             vn == h.heap[n]
             h1 == [h EXCEPT !.heap = Swap(h.heap, i, n)]
             h2 == [h1 EXCEPT !.idxs = Swap(h1.idxs, v, vn)]
             h3 == [h2 EXCEPT !.idxs[0] = n]
         IN  percolate_up(h3, vs, n)

\* variant of get_root: heap is swapped, idxs is not
get_root_heap_only(h, vs) ==
    LET v == h.heap[1]
        n == h.idxs[0]
        h1 == [h EXCEPT !.heap = Swap(h.heap, n, 1)]
        h3 == [h1 EXCEPT !.idxs[0] = h1.idxs[0] - 1]
    IN  [heap |-> IF 1 < h3.idxs[0] THEN percolate_down(h3, vs, 1) ELSE h3, vi |-> v]

\* precondition: the heap is not empty
get_root(h, vs) ==
    LET s == 1
        v == h.heap[s]
        n == h.idxs[0]
        vn == h.heap[n]
        h1 == [h EXCEPT !.heap = Swap(h.heap, n, s)]
        h2 == [h1 EXCEPT !.idxs = Swap(h1.idxs, vn, v)]
        h3 == [h2 EXCEPT !.idxs[0] = h2.idxs[0] - 1]
    IN  [heap |-> IF 1 < h3.idxs[0] THEN percolate_down(h3, vs, 1) ELSE h3, vi |-> v]

\* variant of select_var: the first variable popped is returned
select_var_first(h, vs) ==
    IF h.idxs[0] = 0 THEN [heap |-> h, vi |-> 0] ELSE get_root(h, vs)

\* select_var: pop until an unassigned variable comes out; vi = 0 stands for the
\* pop from an empty heap (the debug assertion "Invalid VarId for heap")
RECURSIVE select_var(_, _)
select_var(h, vs) ==
    IF h.idxs[0] = 0 THEN [heap |-> h, vi |-> 0]
    ELSE LET r == get_root(h, vs) IN
         IF vs[r.vi].assign = BOTTOM THEN r ELSE select_var(r.heap, vs)

RECURSIVE rebuild_from(_, _, _)
rebuild_from(h, vs, v) ==
    IF v \notin DOMAIN vs THEN h
    ELSE IF vs[v].assign = BOTTOM THEN rebuild_from(heap_insert(h, vs, v), vs, v + 1)
         ELSE rebuild_from(h, vs, v + 1)

heap_rebuild(h, vs) == rebuild_from(heap_reset(h), vs, 1)

\* the set of variables stored in the heap
HeapMembers(h) == {v \in DOMAIN h.heap \ {0} : heap_contains(h, v)}


\* --------------------------------------------------- assignment and trail
\* In the operators below S is the record of the solver fields they touch:
\* vars, trail, trail_lim, q_head, cp, var_order and cnt (the counters).

\* mref!(cp, cid).set_flag(Locked, val); the null record holds no state that is read
set_locked(cps, cid, val) ==
    IF to_index(cid) = NULL_INDEX THEN cps
    ELSE [cps EXCEPT ![to_kind(cid)].clauses[to_index(cid)].locked = val]

\* Solver::uncheck_enqueue
uncheck_enqueue(S, l, cid) ==
    [S EXCEPT !.vars[vi(l)] = [@ EXCEPT !.assign = lbool(l),
                                        !.level = decision_level(S.trail_lim),
                                        !.reason = cid],
              !.cp = set_locked(S.cp, cid, TRUE),
              !.trail = Append(S.trail, l)]

\* Solver::uncheck_assume
uncheck_assume(S, l) ==
    uncheck_enqueue([S EXCEPT !.trail_lim = Append(S.trail_lim, Len(S.trail))], l, NULL_CLAUSE)

\* variant of enqueue: the value of the variable is not looked at
enqueue_unchecked(S, l, cid) == [st |-> uncheck_enqueue(S, l, cid), ret |-> TRUE]

\* SolveSAT::enqueue
enqueue(S, l, cid) ==
    LET sig == lbool(l)
        val == S.vars[vi(l)].assign
    IN  IF val = BOTTOM
        THEN [st |-> [S EXCEPT !.vars[vi(l)] = [@ EXCEPT !.assign = sig,
                                                         !.level = decision_level(S.trail_lim),
                                                         !.reason = cid],
                               !.cp = set_locked(S.cp, cid, TRUE),
                               !.trail = Append(S.trail, l)],
              ret |-> TRUE]
        ELSE [st |-> S, ret |-> (val = sig)]

\* variant of cancel_loop: the variables keep their assignment
cancel_loop_skip(S, i) == S

\* variant of cancel_loop: the reason clause keeps its Locked flag
RECURSIVE cancel_loop_keep_lock(_, _)
cancel_loop_keep_lock(S, i) ==
    IF i > Len(S.trail) THEN S
    ELSE LET v == vi(S.trail[i])
             vs1 == [S.vars EXCEPT ![v] = [@ EXCEPT !.phase = S.vars[v].assign,
                                                    !.assign = BOTTOM,
                                                    !.reason = NULL_CLAUSE]]
         IN  cancel_loop_keep_lock([S EXCEPT !.vars = vs1,
                                             !.var_order = heap_insert(S.var_order, vs1, v)], i + 1)

\* the for loop of cancel_until over trail[lim..]
RECURSIVE cancel_loop(_, _)
cancel_loop(S, i) ==
    IF i > Len(S.trail) THEN S
    ELSE LET v == vi(S.trail[i])
             r == S.vars[v].reason
             vs1 == [S.vars EXCEPT ![v] = [@ EXCEPT !.phase = S.vars[v].assign,
                                                    !.assign = BOTTOM,
                                                    !.reason = NULL_CLAUSE]]
             cp1 == IF r # NULL_CLAUSE THEN set_locked(S.cp, r, FALSE) ELSE S.cp
         IN  cancel_loop([S EXCEPT !.vars = vs1, !.cp = cp1,
                                   !.var_order = heap_insert(S.var_order, vs1, v)], i + 1)

\* variant of cancel_until: q_head is left where it was
cancel_until_stale_head(S, lv) ==
    IF decision_level(S.trail_lim) <= lv THEN S
    ELSE LET lim == S.trail_lim[lv + 1]
             S1 == cancel_loop(S, lim + 1)
         IN  [S1 EXCEPT !.trail = Truncate(S1.trail, lim),
                        !.trail_lim = Truncate(S1.trail_lim, lv)]

\* Restart::cancel_until
cancel_until(S, lv) ==
    IF decision_level(S.trail_lim) <= lv THEN S
    ELSE LET lim == S.trail_lim[lv + 1]
             S1 == cancel_loop(S, lim + 1)
         IN  [S1 EXCEPT !.trail = Truncate(S1.trail, lim),
                        !.trail_lim = Truncate(S1.trail_lim, lv),
                        !.q_head = lim]

\* ------------------------------------------------------------ propagation
\* variant of first_not_false: the value of the literal is not looked at
first_any(vs, ls, k) == IF k > Len(ls) THEN 0 ELSE k

\* variant of first_not_false: only a TRUE literal is taken
first_true(vs, ls, k) ==
    LET ks == {j \in k..Len(ls) : assigned(vs, ls[j]) = LTRUE}
    IN  IF ks = {} THEN 0 ELSE CHOOSE j \in ks : \A i \in ks : j <= i

\* position of the first literal of ls that is not FALSE, 0 when there is none
RECURSIVE first_not_false(_, _, _)
first_not_false(vs, ls, k) ==
    IF k > Len(ls) THEN 0
    ELSE IF assigned(vs, ls[k]) # LFALSE THEN k
    ELSE first_not_false(vs, ls, k + 1)

\* a sweep that examines the first record only and cuts the list after it
sweep_first(S, kind, p, ci, tail) ==
    IF ci = NULL_INDEX THEN [st |-> S, confl |-> NULL_CLAUSE]
    ELSE LET slot == IF S.cp[kind].clauses[ci].lit[1] = negate(p) THEN 1 ELSE 2
         IN  [st |-> [S EXCEPT !.cp[kind].clauses[ci].next_watcher[slot] = NULL_INDEX,
                               !.cp[kind].watcher[p] = ci],
              confl |-> NULL_CLAUSE]

\* the 'next_clause loop of propagate: the sweep of the list of p in partition kind,
\* from record ci on; tail is the link the conflict case writes through
RECURSIVE sweep(_, _, _, _, _)
sweep(S, kind, p, ci, tail) ==
    IF ci = NULL_INDEX THEN [st |-> S, confl |-> NULL_CLAUSE]
    ELSE
    LET false_lit == negate(p)
        c0 == S.cp[kind].clauses[ci]
        c == IF c0.lit[1] = false_lit
             THEN [c0 EXCEPT !.lit = <<c0.lit[2], c0.lit[1]>>,
                             !.next_watcher = <<c0.next_watcher[2], c0.next_watcher[1]>>]
             ELSE c0
        next == c.next_watcher[2]
        other_value == assigned(S.vars, c.lit[1])
        k == first_not_false(S.vars, c.lits, 1)
        S1 == [S EXCEPT !.cp[kind].clauses[ci] = c]
    IN  IF other_value # LTRUE /\ k # 0
        THEN \* relink the record to the list of the replacement watch
             LET lk == c.lits[k]
                 alt == negate(lk)
                 c2 == [c EXCEPT !.next_watcher[2] = S1.cp[kind].watcher[alt],
                                 !.lit[2] = lk,
                                 !.lits[k] = false_lit]
                 S2 == [S1 EXCEPT !.cp[kind].clauses[ci] = c2,
                                  !.cp[kind].watcher[alt] = c.index]
             IN  sweep(S2, kind, p, next, tail)
        ELSE IF other_value # LTRUE /\ other_value = LFALSE
        THEN [st |-> [S1 EXCEPT !.cp[kind] = WritePtr(S1.cp[kind], tail, c.index)],
              confl |-> id_from(kind, c.index)]
        ELSE LET S2 == IF other_value # LTRUE
                       THEN uncheck_enqueue(S1, c.lit[1], id_from(kind, c.index))
                       ELSE S1
                 watch == S2.cp[kind].watcher[p]
                 tail1 == IF watch = NULL_INDEX THEN LinkPtr(ci, 2) ELSE tail
                 S3 == [S2 EXCEPT !.cp[kind].clauses[ci].next_watcher[2] = watch,
                                  !.cp[kind].watcher[p] = c.index]
             IN  sweep(S3, kind, p, next, tail1)

\* variant of propagate_kinds: only the first partition is swept
propagate_first_kind(S, p, kinds) ==
    LET kind == Head(kinds)
    IN  sweep([S EXCEPT !.cp[kind].watcher[p] = NULL_INDEX], kind, p, S.cp[kind].watcher[p], HeadPtr(p))

\* the for loop of propagate over the partitions, for trail literal p
RECURSIVE propagate_kinds(_, _, _)
propagate_kinds(S, p, kinds) ==
    IF kinds = <<>> THEN [st |-> S, confl |-> NULL_CLAUSE]
    ELSE LET kind == Head(kinds)
             ci == S.cp[kind].watcher[p]
             S1 == [S EXCEPT !.cp[kind].watcher[p] = NULL_INDEX]
             r == sweep(S1, kind, p, ci, HeadPtr(p))
         IN  IF r.confl # NULL_CLAUSE THEN r
             ELSE propagate_kinds(r.st, p, Tail(kinds))

\* variant of propagate: one trail literal is taken and the loop is left
propagate_once(S) ==
    IF S.q_head < Len(S.trail)
    THEN propagate_kinds([S EXCEPT !.q_head = S.q_head + 1], S.trail[S.q_head + 1],
                         <<Binclause, Permanent, Removable>>)
    ELSE [st |-> S, confl |-> NULL_CLAUSE]

\* SolveSAT::propagate
RECURSIVE propagate(_)
propagate(S) ==
    IF S.q_head < Len(S.trail)
    THEN LET p == S.trail[S.q_head + 1]
             r == propagate_kinds([S EXCEPT !.q_head = S.q_head + 1], p,
                                  <<Binclause, Permanent, Removable>>)
         IN  IF r.confl # NULL_CLAUSE THEN r ELSE propagate(r.st)
    ELSE [st |-> S, confl |-> NULL_CLAUSE]


\* ------------------------------------------------------------- activities
\* bump of a variable's activity, followed by the heap update
bump_vi(S, v) ==
    LET vs1 == [S.vars EXCEPT ![v].activity = @ + S.cnt.var_inc]
    IN  [S EXCEPT !.vars = vs1, !.var_order = heap_update(S.var_order, vs1, v)]

\* the activity of clause cid
clause_activity(S, cid) == S.cp[to_kind(cid)].clauses[to_index(cid)].activity

\* the product of an activity with 1.0e-20, the inverse of the limit
rescaled(a) == a \div ActivityLimit

\* the rescale branch of bump_cid: the learnt clauses of the Removable
\* partition and cla_inc
rescale_cla(S) ==
    [S EXCEPT !.cp[Removable].clauses =
                  [i \in DOMAIN S.cp[Removable].clauses |->
                      IF S.cp[Removable].clauses[i].learnt
                      THEN [S.cp[Removable].clauses[i] EXCEPT !.activity = rescaled(@)]
                      ELSE S.cp[Removable].clauses[i]],
              !.cnt.cla_inc = rescaled(@)]

\* variant of bump_cid: no rescale
bump_cid_unscaled(S, cid) ==
    [S EXCEPT !.cp[to_kind(cid)].clauses[to_index(cid)].activity = @ + S.cnt.cla_inc]

\* ClauseManagement::bump_cid
bump_cid(S, cid) ==
    IF ActivityLimit < clause_activity(S, cid) + S.cnt.cla_inc
    THEN rescale_cla([S EXCEPT !.cp[to_kind(cid)].clauses[to_index(cid)].activity = @ + S.cnt.cla_inc])
    ELSE [S EXCEPT !.cp[to_kind(cid)].clauses[to_index(cid)].activity = @ + S.cnt.cla_inc]

decay_var_activity(S) == [S EXCEPT !.cnt.var_inc = @ + 1]

decay_cla_activity(S) == [S EXCEPT !.cnt.cla_inc = @ + 1]

\* ------------------------------------------------------------ add_clause
\* variant of normalize: a FALSE literal is kept
RECURSIVE normalize_keep_false(_, _, _, _, _)
normalize_keep_false(vs, v, i, out, last) ==
    IF i > Len(v) THEN [sat |-> FALSE, lits |-> out]
    ELSE LET li == v[i]
         IN  IF assigned(vs, li) = LTRUE \/ negate(li) = last THEN [sat |-> TRUE, lits |-> out]
             ELSE IF li # last
                  THEN normalize_keep_false(vs, v, i + 1, Append(out, li), li)
                  ELSE normalize_keep_false(vs, v, i + 1, out, last)

\* the normalizing loop of add_clause over the sorted vector v, from position i:
\* out is the kept prefix, last the last kept literal; sat is TRUE when the loop
\* returned early (a TRUE literal or a complementary pair)
RECURSIVE normalize(_, _, _, _, _)
normalize(vs, v, i, out, last) ==
    IF i > Len(v) THEN [sat |-> FALSE, lits |-> out]
    ELSE LET li == v[i]
             sat == assigned(vs, li)
         IN  IF sat = LTRUE \/ negate(li) = last THEN [sat |-> TRUE, lits |-> out]
             ELSE IF sat # LFALSE /\ li # last
                  THEN normalize(vs, v, i + 1, Append(out, li), li)
                  ELSE normalize(vs, v, i + 1, out, last)

\* ClauseManagement::add_clause
add_clause(S, v0) ==
    LET n == normalize(S.vars, SortLits(v0), 1, <<>>, NULL_LIT)
        v == n.lits
        kind == IF Len(v) = 2 THEN Binclause ELSE Permanent
    IN  IF n.sat THEN [st |-> S, ret |-> TRUE]
        ELSE IF Len(v) = 0 THEN [st |-> S, ret |-> FALSE]
        ELSE IF Len(v) = 1 THEN enqueue(S, v[1], NULL_CLAUSE)
        ELSE [st |-> [S EXCEPT !.cp[kind] = new_clause(S.cp[kind], v, 0, FALSE, FALSE).pack],
              ret |-> TRUE]

\* ------------------------------------------------------------ add_learnt
\* position (0-based) of the assigned literal of greatest level, as the seek loop finds it
RECURSIVE seek_max(_, _, _, _, _)
seek_max(vs, v, i, i_max, lv_max) ==
    IF i > Len(v) THEN i_max
    ELSE LET x == vs[vi(v[i])]
         IN  IF x.assign # BOTTOM /\ lv_max < x.level
             THEN seek_max(vs, v, i + 1, i - 1, x.level)
             ELSE seek_max(vs, v, i + 1, i_max, lv_max)

\* add_learnt without the swap: the second literal analyze returned stays at position 1
add_learnt_no_swap(S, v, lbd) ==
    IF Len(v) = 1 THEN [st |-> uncheck_enqueue(S, v[1], NULL_CLAUSE), cid |-> NULL_CLAUSE]
    ELSE LET kind == IF Len(v) = 2 THEN Binclause
                     ELSE IF S.cnt.chan_seok /\ lbd <= CO_LBD_BOUND THEN Permanent
                     ELSE Removable
             r == new_clause(S.cp[kind], v, lbd, TRUE, TRUE)
             S1 == bump_cid([S EXCEPT !.cp[kind] = r.pack], r.cid)
         IN  [st |-> uncheck_enqueue(S1, v[1], r.cid), cid |-> r.cid]

\* add_learnt that asserts the second watch, a literal that is FALSE
add_learnt_assert_second(S, v0, lbd) ==
    IF Len(v0) = 1 THEN [st |-> uncheck_enqueue(S, v0[1], NULL_CLAUSE), cid |-> NULL_CLAUSE]
    ELSE LET i_max == seek_max(S.vars, v0, 1, 0, 0)
             v == Swap(v0, 2, i_max + 1)
             l0 == v[1]
             kind == IF Len(v) = 2 THEN Binclause
                     ELSE IF S.cnt.chan_seok /\ lbd <= CO_LBD_BOUND THEN Permanent
                     ELSE Removable
             r == new_clause(S.cp[kind], v, lbd, TRUE, TRUE)
             S1 == bump_cid([S EXCEPT !.cp[kind] = r.pack], r.cid)
         IN  [st |-> uncheck_enqueue(S1, v[2], r.cid), cid |-> r.cid]

\* add_learnt that asserts the first literal without a reason
add_learnt_no_reason(S, v0, lbd) ==
    IF Len(v0) = 1 THEN [st |-> uncheck_enqueue(S, v0[1], NULL_CLAUSE), cid |-> NULL_CLAUSE]
    ELSE LET i_max == seek_max(S.vars, v0, 1, 0, 0)
             v == Swap(v0, 2, i_max + 1)
             l0 == v[1]
             kind == IF Len(v) = 2 THEN Binclause
                     ELSE IF S.cnt.chan_seok /\ lbd <= CO_LBD_BOUND THEN Permanent
                     ELSE Removable
             r == new_clause(S.cp[kind], v, lbd, TRUE, TRUE)
             S1 == bump_cid([S EXCEPT !.cp[kind] = r.pack], r.cid)
         IN  [st |-> uncheck_enqueue(S1, l0, NULL_CLAUSE), cid |-> r.cid]

\* ClauseManagement::add_learnt
add_learnt(S, v0, lbd) ==
    IF Len(v0) = 1 THEN [st |-> uncheck_enqueue(S, v0[1], NULL_CLAUSE), cid |-> NULL_CLAUSE]
    ELSE LET i_max == seek_max(S.vars, v0, 1, 0, 0)
             v == Swap(v0, 2, i_max + 1)
             l0 == v[1]
             kind == IF Len(v) = 2 THEN Binclause
                     ELSE IF S.cnt.chan_seok /\ lbd <= CO_LBD_BOUND THEN Permanent
                     ELSE Removable
             r == new_clause(S.cp[kind], v, lbd, TRUE, TRUE)
             S1 == bump_cid([S EXCEPT !.cp[kind] = r.pack], r.cid)
         IN  [st |-> uncheck_enqueue(S1, l0, r.cid), cid |-> r.cid]

\* ---------------------------------------------------------------- reduce
\* Ord for Clause: -1 (Less), 0 (Equal), 1 (Greater)
clause_cmp(a, b) ==
    IF a.rank < b.rank THEN -1
    ELSE IF a.rank > b.rank THEN 1
    ELSE IF a.activity > b.activity THEN -1
    ELSE IF a.activity < b.activity THEN 1
    ELSE 0

\* stable sort of a vector of clause indices by clause_cmp (sort_by)
RECURSIVE insert_stable(_, _, _)
insert_stable(cs, x, s) ==
    IF s = <<>> THEN <<x>>
    ELSE IF clause_cmp(cs[x], cs[Head(s)]) < 0 THEN <<x>> \o s
    ELSE <<Head(s)>> \o insert_stable(cs, x, Tail(s))

RECURSIVE sort_by(_, _)
sort_by(cs, s) ==
    IF s = <<>> THEN <<>>
    ELSE insert_stable(cs, s[Len(s)], sort_by(cs, SubSeq(s, 1, Len(s) - 1)))

\* variant of reduce_candidates: the Locked flag is not looked at
reduce_candidates_unlocked(cs, i) ==
    SelectSeq([k \in 1..Len(cs) |-> k], LAMBDA k : k >= i /\ ~cs[k].dead)

\* the candidates of reduce: indices of the records neither Dead nor Locked
RECURSIVE reduce_candidates(_, _)
reduce_candidates(cs, i) ==
    IF i > Len(cs) THEN <<>>
    ELSE IF ~cs[i].dead /\ ~cs[i].locked THEN <<i>> \o reduce_candidates(cs, i + 1)
    ELSE reduce_candidates(cs, i + 1)

reduce_permutation(cs) ==
    LET perm == reduce_candidates(cs, 1)
    IN  IF perm = <<>> THEN perm
        ELSE <<perm[1]>> \o sort_by(cs, SubSeq(perm, 2, Len(perm)))

\* the for loop of reduce over permutation[keep..nc] (positions i.. of perm)
RECURSIVE reduce_mark(_, _, _)
reduce_mark(pk, perm, i) ==
    IF i > Len(perm) THEN pk
    ELSE LET c == pk.clauses[perm[i]]
         IN  IF c.just_used
             THEN reduce_mark([pk EXCEPT !.clauses[perm[i]].just_used = FALSE], perm, i + 1)
             ELSE reduce_mark([pk EXCEPT !.clauses[perm[i]].dead = TRUE,
                                         !.touched[negate(c.lit[1])] = TRUE,
                                         !.touched[negate(c.lit[2])] = TRUE], perm, i + 1)

\* ClauseManagement::reduce; precondition: reduce_permutation is not empty (the
\* debug assertion, and the bound of permutation[1..])
reduce(S) ==
    LET pk == S.cp[Removable]
        perm == reduce_permutation(pk.clauses)
        nc == Len(perm)
        keep == nc \div 2
        bonus == IF pk.clauses[perm[keep + 1]].rank <= RankBonusBound THEN RankBonus ELSE 0
        pk1 == reduce_mark(pk, perm, keep + 1)
        pk2 == reset_lbd(garbage_collect(pk1), S.vars)
    IN  [S EXCEPT !.cp[Removable] = pk2,
                  !.cnt.next_reduction = @ + bonus + DB_INC_SIZE,
                  !.cnt.reductions = @ + 1]

\* -------------------------------------------------------------- simplify
\* Satisfiability::satisfies: some literal of the record is TRUE
satisfies(vs, c) == \E i \in 1..ClauseLen(c) : assigned(vs, ClauseLits(c)[i]) = LTRUE

\* variant of simplify_mark: only the ranks are set, no record is marked
simplify_mark_rank(pk, vs) ==
    [pk EXCEPT !.clauses = [i \in DOMAIN pk.clauses |->
                               [pk.clauses[i] EXCEPT !.rank = ClauseLen(pk.clauses[i])]]]

\* the loop of simplify over the records of one partition
simplify_mark(pk, vs) ==
    LET sat(i) == satisfies(vs, pk.clauses[i])
    IN  [pk EXCEPT
            !.clauses = [i \in DOMAIN pk.clauses |->
                [pk.clauses[i] EXCEPT !.rank = ClauseLen(pk.clauses[i]),
                                      !.dead = IF sat(i) THEN TRUE ELSE @]],
            !.touched = [l \in DOMAIN pk.touched |->
                pk.touched[l] \/ \E i \in DOMAIN pk.clauses :
                    sat(i) /\ l \in {negate(pk.clauses[i].lit[1]), negate(pk.clauses[i].lit[2])}]]

\* variant of simplify_reasons: the reasons are kept
simplify_reasons_skip(S, v) == S

\* the reset of the reasons at the head of simplify
RECURSIVE simplify_reasons(_, _)
simplify_reasons(S, v) ==
    IF v \notin DOMAIN S.vars THEN S
    ELSE IF S.vars[v].reason # NULL_CLAUSE
         THEN simplify_reasons([S EXCEPT !.cp = set_locked(S.cp, S.vars[v].reason, FALSE),
                                         !.vars[v].reason = NULL_CLAUSE], v + 1)
         ELSE simplify_reasons(S, v + 1)

\* ClauseManagement::simplify
simplify(S) ==
    LET S1 == simplify_reasons(S, 1)
    IN  [S1 EXCEPT !.cp = [k \in DOMAIN S1.cp |->
                              garbage_collect(simplify_mark(S1.cp[k], S1.vars))]]


\* ------------------------------------------------------ conflict analysis
\* the record of reason/conflict clause cid
clause_of(S, cid) == S.cp[to_kind(cid)].clauses[to_index(cid)]

\* the for loop of analyze over the literals qs of one clause; A carries the
\* solver record st and the locals seen (an_seen), learnt (an_learnt_lits[1..]),
\* b, path_cnt and last_dl (an_last_dl)
RECURSIVE analyze_lits(_, _, _)
analyze_lits(A, qs, dl) ==
    IF qs = <<>> THEN A
    ELSE LET q == Head(qs)
             v == vi(q)
             l == A.st.vars[v].level
         IN  IF v \notin A.seen /\ 0 < l
             THEN LET A1 == [A EXCEPT !.st = bump_vi(A.st, v), !.seen = @ \cup {v}]
                  IN  IF dl <= l
                      THEN analyze_lits(
                               [A1 EXCEPT !.path_cnt = @ + 1,
                                          !.last_dl = IF A.st.vars[v].reason # NULL_CLAUSE
                                                      THEN Append(@, q) ELSE @],
                               Tail(qs), dl)
                      ELSE analyze_lits(
                               [A1 EXCEPT !.learnt = Append(@, q),
                                          !.b = IF l > @ THEN l ELSE @],
                               Tail(qs), dl)
             ELSE analyze_lits(A, Tail(qs), dl)

\* the while loop of analyze that steps ti down to the next seen trail literal
RECURSIVE seek_seen(_, _, _)
seek_seen(tr, seen, ti) == IF vi(tr[ti + 1]) \in seen THEN ti ELSE seek_seen(tr, seen, ti - 1)

\* the head of one round of the resolution loop: the bump of clause ci and the
\* update of its rank
analyze_rank_with(A, ci, d, r) ==
    IF 2 < d /\ r.cnt + 1 < d
    THEN [A EXCEPT !.st = [r.st EXCEPT !.cp[to_kind(ci)].clauses[to_index(ci)].rank = r.cnt]]
    ELSE [A EXCEPT !.st = r.st]

analyze_rank(A, ci) ==
    IF 0 < clause_of(A.st, ci).rank
    THEN analyze_rank_with(A, ci, clause_of(A.st, ci).rank,
                           lbd_of(bump_cid(A.st, ci), clause_of(A.st, ci)))
    ELSE A

\* the literals of clause ci that one round visits: all of them for the conflict
\* clause, all but the first for a reason
analyze_range(A, ci, p) ==
    IF p = NULL_LIT THEN ClauseLits(clause_of(A.st, ci)) ELSE Tail(ClauseLits(clause_of(A.st, ci)))

\* the resolution loop of analyze; analyze_next is the tail of one round: the
\* next seen literal p of the trail, its reason, and the test on path_cnt
RECURSIVE analyze_loop(_, _, _, _, _)
RECURSIVE analyze_next(_, _, _)
analyze_next(A1, ti1, dl) ==
    LET p1 == A1.st.trail[ti1 + 1]
    IN  IF A1.path_cnt - 1 <= 0
        THEN [A1 EXCEPT !.seen = @ \ {vi(p1)}, !.path_cnt = @ - 1, !.p = p1]
        ELSE analyze_loop([A1 EXCEPT !.seen = @ \ {vi(p1)}, !.path_cnt = @ - 1],
                          A1.st.vars[vi(p1)].reason, p1, ti1 - 1, dl)

analyze_seek(A1, ti, dl) == analyze_next(A1, seek_seen(A1.st.trail, A1.seen, ti), dl)

analyze_loop(A, ci, p, ti, dl) ==
    analyze_seek(analyze_lits(analyze_rank(A, ci), analyze_range(A, ci, p), dl), ti, dl)

\* the for loop of analyze_removable over the literals of one reason clause, from
\* position i; R carries seen, stack (an_stack), to_clear (an_to_clear) and abort
RECURSIVE removable_lits(_, _, _, _, _)
removable_lits(vs, level_map, qs, i, R) ==
    IF i > Len(qs) THEN R
    ELSE LET q == qs[i]
             v == vi(q)
             lv == vs[v].level % LEVEL_BITMAP_SIZE
         IN  IF v \notin R.seen /\ lv # 0
             THEN IF vs[v].reason # NULL_CLAUSE /\ lv \in level_map
                  THEN removable_lits(vs, level_map, qs, i + 1,
                           [R EXCEPT !.seen = @ \cup {v},
                                     !.stack = Append(@, q),
                                     !.to_clear = Append(@, q)])
                  ELSE [R EXCEPT !.abort = TRUE]
             ELSE removable_lits(vs, level_map, qs, i + 1, R)

\* the loop of analyze_removable
RECURSIVE removable_loop(_, _, _, _)
removable_loop(S, level_map, R, top1) ==
    IF R.stack = <<>> THEN [ret |-> TRUE, seen |-> R.seen, to_clear |-> R.to_clear]
    ELSE LET sl == R.stack[Len(R.stack)]
             c == clause_of(S, S.vars[vi(sl)].reason)
             R1 == removable_lits(S.vars, level_map, ClauseLits(c), 1,
                                  [R EXCEPT !.stack = SubSeq(@, 1, Len(@) - 1)])
         IN  IF R1.abort
             THEN [ret |-> FALSE,
                   seen |-> R1.seen \ {vi(R1.to_clear[k]) : k \in (top1 + 1)..Len(R1.to_clear)},
                   to_clear |-> SubSeq(R1.to_clear, 1, top1)]
             ELSE removable_loop(S, level_map, R1, top1)

analyze_removable(S, l, level_map, seen, to_clear) ==
    removable_loop(S, level_map,
                   [seen |-> seen, stack |-> <<l>>, to_clear |-> to_clear, abort |-> FALSE],
                   Len(to_clear))

\* the minimization loop of analyze over an_learnt_lits[i..]; out is the kept prefix
RECURSIVE minimize(_, _, _, _, _, _)
minimize(S, ls, i, out, level_map, M) ==
    IF i > Len(ls) THEN out
    ELSE LET l == ls[i]
         IN  IF S.vars[vi(l)].reason = NULL_CLAUSE
             THEN minimize(S, ls, i + 1, Append(out, l), level_map, M)
             ELSE LET r == analyze_removable(S, l, level_map, M.seen, M.to_clear)
                      M1 == [seen |-> r.seen, to_clear |-> r.to_clear]
                  IN  IF ~r.ret
                      THEN minimize(S, ls, i + 1, Append(out, l), level_map, M1)
                      ELSE minimize(S, ls, i + 1, out, level_map, M1)

\* the bumps of the variables of an_last_dl whose reason is longer than the learnt clause
RECURSIVE bump_last_dl(_, _, _)
bump_last_dl(S, ls, r) ==
    IF ls = <<>> THEN S
    ELSE LET v == vi(Head(ls))
             len == ClauseLen(clause_of(S, S.vars[v].reason))
         IN  bump_last_dl(IF r < len THEN bump_vi(S, v) ELSE S, Tail(ls), r)

\* the state of the resolution loop at its start
analyze_start(S) ==
    [st |-> S, seen |-> {}, learnt |-> <<>>, b |-> 0, path_cnt |-> 0,
     last_dl |-> <<>>, p |-> NULL_LIT]

\* the learnt clause after the simplify phase of analyze
analyze_learnt(A) ==
    minimize(A.st, <<negate(A.p)>> \o A.learnt, 2, <<negate(A.p)>>,
             {A.st.vars[vi(A.learnt[i])].level % LEVEL_BITMAP_SIZE : i \in 1..Len(A.learnt)},
             [seen |-> A.seen, to_clear |-> <<negate(A.p)>> \o A.learnt])

\* the glucose heuristics of analyze, and its result
analyze_result(A, learnt) ==
    [st |-> bump_last_dl(A.st, A.last_dl, Len(learnt)), bl |-> A.b, learnt |-> learnt]

analyze_minimized(A) == analyze_result(A, analyze_learnt(A))

\* variant of analyze: the asserting literal is pushed last
analyze_last_of(A) == [st |-> A.st, bl |-> A.b, learnt |-> A.learnt \o <<negate(A.p)>>]

analyze_last(S, confl) ==
    analyze_last_of(analyze_loop(analyze_start(S), confl, NULL_LIT, Len(S.trail) - 1,
                                 decision_level(S.trail_lim)))

\* Solver::analyze: the solver record after the bumps, the backtrack level and
\* the learnt clause
analyze(S, confl) ==
    analyze_minimized(analyze_loop(analyze_start(S), confl, NULL_LIT, Len(S.trail) - 1,
                                   decision_level(S.trail_lim)))


\* ------------------------------------------------------- restart control
\* force_restart without the test of next_restart
force_restart_eager(S, should_force) ==
    LET count == S.cnt.conflicts
    IN  IF should_force
        THEN cancel_until([S EXCEPT !.cnt.next_restart = count + RestartStep,
                                    !.cnt.restarts = @ + 1], 0)
        ELSE S

\* Restart::force_restart; should_force stands for K < ema_lbd.get()
force_restart(S, should_force) ==
    LET count == S.cnt.conflicts
    IN  IF S.cnt.next_restart < count /\ should_force
        THEN cancel_until([S EXCEPT !.cnt.next_restart = count + RestartStep,
                                    !.cnt.restarts = @ + 1], 0)
        ELSE S

\* Restart::block_restart; should_block stands for R < ema_asg.get()
block_restart(S, should_block) ==
    LET count == S.cnt.conflicts
    IN  IF BlockAfter < count /\ S.cnt.next_restart <= count /\ should_block
        THEN [S EXCEPT !.cnt.next_restart = count + RestartStep,
                       !.cnt.block_restarts = @ + 1]
        ELSE S

\* ------------------------------------------------------------ the solver
\* the solver fields as one record, and their update from such a record
Cur ==
    [vars |-> vars, trail |-> trail, trail_lim |-> trail_lim, q_head |-> q_head,
     cp |-> cp, var_order |-> var_order, cnt |-> counters]

Install(S) ==
    /\ vars' = S.vars
    /\ trail' = S.trail
    /\ trail_lim' = S.trail_lim
    /\ q_head' = S.q_head
    /\ cp' = S.cp
    /\ var_order' = S.var_order
    /\ counters' = S.cnt

NoLocal == [ci |-> NULL_CLAUSE, d |-> 0, bl |-> 0, lbd |-> 0]

\* no direct call has been made
NoCall == [op |-> "none"]

\* the clause pool of the generated problems, in DIMACS integers: the empty
\* clause, units, a tautology, a repeated literal, binary clauses over the
\* variables 1, 2 and 3, 4, and four ternary clauses over the four variables
InputClauses ==
    << <<>>, <<1>>, <<-1>>, <<2, -1, 1>>, <<-3, 2, 2>>,
       <<2, 1>>, <<2, -1>>, <<-2, 1>>, <<-2, -1>>, <<3, -4>>, <<-3, -4>>,
       <<-3, 2, -1>>, <<-4, -3, -2>>, <<3, -2, -1>>, <<-4, 3, 2>> >>

\* the subsequences of InputClauses[i..] of at most k clauses
RECURSIVE PoolSubSeqs(_, _)
PoolSubSeqs(i, k) ==
    IF i > Len(InputClauses) \/ k = 0 THEN {<<>>}
    ELSE PoolSubSeqs(i + 1, k) \cup {<<InputClauses[i]>> \o t : t \in PoolSubSeqs(i + 1, k - 1)}

\* the problems of the scenario table: S1 .. S5 (S4 is the pigeon-hole problem
\* PHP(3,2), variable 2(i-1)+h for pigeon i in hole h)
Scenarios ==
    { [nv |-> 1, clauses |-> << <<1>> >>],
      [nv |-> 1, clauses |-> << <<1>>, <<-1>> >>],
      [nv |-> 3, clauses |-> << <<1, 2>>, <<-1, 2>>, <<-2, 3>> >>],
      [nv |-> 6, clauses |-> << <<1, 2>>, <<3, 4>>, <<5, 6>>,
                                <<-1, -3>>, <<-1, -5>>, <<-3, -5>>,
                                <<-2, -4>>, <<-2, -6>>, <<-4, -6>> >>],
      [nv |-> 4, clauses |-> << <<1, 2>>, <<-1, 3>>, <<-2, 3>>, <<-3, 4>> >>] }

\* a problem with two ternary learnt clauses, the second learnt at the conflict
\* that starts the first reduction
TwoLearnts ==
    [nv |-> 7, clauses |-> << <<-1, 2>>, <<-1, 3>>, <<-6, -1, 4>>, <<-6, -7, -4>>,
                              <<6, -2, 5>>, <<6, -3, -5>> >>]

\* a problem whose first decision meets a conflict in the middle of a watch
\* list: the sweep of the list of x1 keeps (-1 2), which implies x2, finds
\* (-1 -2) falsified, and leaves (-1 4) unexamined
MidSweep ==
    [nv |-> 4, clauses |-> << <<-1, 4>>, <<-1, -2>>, <<-1, 2>> >>]

\* the problems the model is run on
Problems ==
    Scenarios \cup {TwoLearnts, MidSweep} \cup {[nv |-> 4, clauses |-> cs] : cs \in PoolSubSeqs(1, MaxClauses)}

\* the literal vector the loader builds from a DIMACS clause
ParseClause(c) == [i \in 1..Len(c) |-> int2lit(c[i])]

Init ==
    /\ cnf \in Problems
    /\ vars = [v \in 0..num_vars |-> NewVar]
    /\ trail = <<>>
    /\ trail_lim = <<>>
    /\ q_head = 0
    /\ cp = [k \in {Removable, Permanent, Binclause} |-> ClausePackBuild(k, num_vars)]
    /\ var_order = VarIdHeapNew(num_vars, num_vars)
    /\ \E b \in BOOLEAN, r \in {FirstReduction, LateReduction} :
         counters = [conflicts |-> 0, restarts |-> 0, block_restarts |-> 0, reductions |-> 0,
                     next_restart |-> FirstRestart, next_reduction |-> r,
                     cur_restart |-> 1, num_solved_vars |-> 0,
                     var_inc |-> ActivityUnit, cla_inc |-> ActivityUnit, chan_seok |-> b,
                     lbd_seen |-> [i \in 0..num_vars |-> 0]]
    /\ an_learnt_lits = <<>>
    /\ local = NoLocal
    /\ pc = "load"
    /\ ok = TRUE
    /\ given = <<>>
    /\ result = <<>>
    /\ call = NoCall

\* the loader hands the next clause of the problem to add_clause; a FALSE return
\* makes the problem UNSAT
AddClause ==
    /\ pc = "load"
    /\ Len(given) < Len(cnf.clauses)
    /\ LET v == ParseClause(cnf.clauses[Len(given) + 1])
           r == add_clause(Cur, v)
       IN  /\ Install(r.st)
           /\ ok' = r.ret
           /\ pc' = IF r.ret THEN "load" ELSE "unsat"
           /\ given' = Append(given, v)
    /\ UNCHANGED <<an_learnt_lits, local, cnf, call, result>>

\* solve() enters search() once the whole problem is loaded
StartSearch ==
    /\ pc = "load"
    /\ Len(given) = Len(cnf.clauses)
    /\ pc' = "propagate"
    /\ UNCHANGED <<vars, trail, trail_lim, q_head, cp, var_order, counters, an_learnt_lits,
                   local, ok, cnf, call, given, result>>

\* search(): let ci = self.propagate(); let d = self.decision_level();
Propagate ==
    /\ pc = "propagate"
    /\ LET r == propagate(Cur)
       IN  /\ Install(r.st)
           /\ local' = [NoLocal EXCEPT !.ci = r.confl, !.d = decision_level(r.st.trail_lim)]
    /\ pc' = "branch"
    /\ UNCHANGED <<an_learnt_lits, ok, cnf, call, given, result>>

\* search(): no conflict and every variable assigned: return true
ReturnSat ==
    /\ pc = "branch"
    /\ local.ci = NULL_CLAUSE
    /\ num_assigns(trail) = num_vars
    /\ pc' = "sat"
    /\ UNCHANGED <<vars, trail, trail_lim, q_head, cp, var_order, counters, an_learnt_lits,
                   local, ok, cnf, call, given, result>>

\* search(): no conflict: self.force_restart()
ForceRestart(should_force) ==
    /\ pc = "branch"
    /\ local.ci = NULL_CLAUSE
    /\ num_assigns(trail) # num_vars
    /\ Install(force_restart(Cur, should_force))
    /\ pc' = IF local.d = 0 /\ counters.num_solved_vars < num_assigns(trail)
             THEN "simplify" ELSE "decide"
    /\ UNCHANGED <<an_learnt_lits, local, ok, cnf, call, given, result>>

\* search(): simplify_database(); num_solved_vars = na; rebuild_vh()
Simplify ==
    /\ pc = "simplify"
    /\ LET S1 == simplify(Cur)
           S2 == [S1 EXCEPT !.cnt.num_solved_vars = num_assigns(trail),
                            !.var_order = heap_rebuild(S1.var_order, S1.vars)]
       IN  Install(S2)
    /\ pc' = "simplified"
    /\ UNCHANGED <<an_learnt_lits, local, ok, cnf, call, given, result>>

\* search(): select_var and uncheck_assume; an empty heap fails the assertion on vi
Decide ==
    /\ pc \in {"decide", "simplified"}
    /\ IF Len(trail) <= q_head
       THEN LET r == select_var(var_order, vars)
            IN  IF r.vi = 0
                THEN /\ pc' = "panic"
                     /\ UNCHANGED <<vars, trail, trail_lim, q_head, cp, var_order, counters>>
                ELSE /\ Install(uncheck_assume([Cur EXCEPT !.var_order = r.heap],
                                               var2lit(r.vi, vars[r.vi].phase)))
                     /\ pc' = "propagate"
       ELSE /\ pc' = "propagate"
            /\ UNCHANGED <<vars, trail, trail_lim, q_head, cp, var_order, counters>>
    /\ local' = NoLocal
    /\ UNCHANGED <<an_learnt_lits, ok, cnf, call, given, result>>

\* search(): a conflict at the root level: return false
ReturnUnsat ==
    /\ pc = "branch"
    /\ local.ci # NULL_CLAUSE
    /\ local.d = 0
    /\ counters' = [counters EXCEPT !.conflicts = @ + 1]
    /\ pc' = "unsat"
    /\ UNCHANGED <<vars, trail, trail_lim, q_head, cp, var_order, an_learnt_lits,
                   local, ok, cnf, call, given, result>>

\* search(): a conflict above the root level: analyze(ci)
Analyze ==
    /\ pc = "branch"
    /\ local.ci # NULL_CLAUSE
    /\ local.d # 0
    /\ LET r == analyze([Cur EXCEPT !.cnt.conflicts = @ + 1], local.ci)
       IN  /\ Install(r.st)
           /\ an_learnt_lits' = r.learnt
           /\ local' = [local EXCEPT !.bl = r.bl]
    /\ pc' = "backjump"
    /\ UNCHANGED <<ok, cnf, call, given, result>>

\* search(): cancel_until(max(backtrack_level, root_lv))
Backjump ==
    /\ pc = "backjump"
    /\ Install(cancel_until(Cur, local.bl))
    /\ pc' = "learn"
    /\ UNCHANGED <<an_learnt_lits, local, ok, cnf, call, given, result>>

\* search(): install the learnt clause, decay the activities; add_learnt swaps
\* within an_learnt_lits itself
Learn ==
    /\ pc = "learn"
    /\ LET lbd == IF Len(an_learnt_lits) = 1 THEN 1 ELSE lbd_vec(Cur, an_learnt_lits).cnt
           S1 == IF Len(an_learnt_lits) = 1
                 THEN uncheck_enqueue(Cur, an_learnt_lits[1], NULL_CLAUSE)
                 ELSE add_learnt(lbd_vec(Cur, an_learnt_lits).st, an_learnt_lits, lbd).st
           S2 == decay_cla_activity(decay_var_activity(S1))
       IN  /\ Install(S2)
           /\ local' = [local EXCEPT !.lbd = lbd]
           /\ pc' = IF S2.cnt.cur_restart * S2.cnt.next_reduction <= S2.cnt.conflicts
                    THEN "reduce" ELSE "block"
    /\ an_learnt_lits' = IF Len(an_learnt_lits) = 1 THEN an_learnt_lits
                         ELSE Swap(an_learnt_lits, 2, seek_max(vars, an_learnt_lits, 1, 0, 0) + 1)
    /\ UNCHANGED <<ok, cnf, call, given, result>>

\* search(): cur_restart = conflicts / next_reduction + 1; reduce_watchers().
\* reduce fails its assertion and its slice bound on an empty candidate vector
Reduce ==
    /\ pc = "reduce"
    /\ LET S1 == [Cur EXCEPT !.cnt.cur_restart =
                                 (counters.conflicts \div counters.next_reduction) + 1]
       IN  IF reduce_permutation(cp[Removable].clauses) = <<>>
           THEN /\ Install(S1)
                /\ pc' = "panic"
           ELSE /\ Install(reduce(S1))
                /\ pc' = "reduced"
    /\ UNCHANGED <<an_learnt_lits, local, ok, cnf, call, given, result>>

\* search(): block_restart(lbd, d)
BlockRestart(should_block) ==
    /\ pc \in {"block", "reduced"}
    /\ Install(block_restart(Cur, should_block))
    /\ pc' = "propagate"
    /\ local' = NoLocal
    /\ UNCHANGED <<an_learnt_lits, ok, cnf, call, given, result>>

\* the vector of Certificate::SAT built by solve()
Certificate(vs) ==
    [v \in DOMAIN vs \ {0} |-> IF vs[v].assign = LTRUE THEN v
                          ELSE IF vs[v].assign = LFALSE THEN 0 - v ELSE 0]

\* solve(): search returned true: build the certificate, then cancel_until(0)
SolveSat ==
    /\ pc = "sat"
    /\ result' = Certificate(vars)
    /\ Install(cancel_until(Cur, 0))
    /\ pc' = "SAT"
    /\ UNCHANGED <<an_learnt_lits, local, ok, cnf, call, given>>

\* solve(): search returned false, or the loader met the empty clause
SolveUnsat ==
    /\ pc = "unsat"
    /\ Install(cancel_until(Cur, 0))
    /\ pc' = "UNSAT"
    /\ UNCHANGED <<an_learnt_lits, local, ok, cnf, call, given, result>>

Next ==
    \/ AddClause
    \/ StartSearch
    \/ Propagate
    \/ ReturnSat
    \/ \E b \in BOOLEAN : ForceRestart(b)
    \/ Simplify
    \/ Decide
    \/ ReturnUnsat
    \/ Analyze
    \/ Backjump
    \/ Learn
    \/ Reduce
    \/ \E b \in BOOLEAN : BlockRestart(b)
    \/ SolveSat
    \/ SolveUnsat

Spec == Init /\ [][Next]_solver_vars

\* -------------------------------------------- the literal encoding alone
\* a client converts an integer with int2lit and takes the result apart with
\* the methods of LiteralEncoding and VarIdEncoding; the solver is idle
LitInit ==
    /\ cnf = [nv |-> 1, clauses |-> <<>>]
    /\ vars = [v \in 0..num_vars |-> NewVar]
    /\ trail = <<>>
    /\ trail_lim = <<>>
    /\ q_head = 0
    /\ cp = [k \in {Removable, Permanent, Binclause} |-> ClausePackBuild(k, num_vars)]
    /\ var_order = VarIdHeapNew(num_vars, num_vars)
    /\ counters = [conflicts |-> 0, restarts |-> 0, block_restarts |-> 0, reductions |-> 0,
                   next_restart |-> FirstRestart, next_reduction |-> LateReduction,
                   cur_restart |-> 1, num_solved_vars |-> 0,
                   var_inc |-> ActivityUnit, cla_inc |-> ActivityUnit, chan_seok |-> FALSE,
                   lbd_seen |-> [i \in 0..num_vars |-> 0]]
    /\ an_learnt_lits = <<>>
    /\ local = NoLocal
    /\ pc = "load"
    /\ ok = TRUE
    /\ given = <<>>
    /\ result = <<>>
    /\ \E x \in ((-MaxLitVar)..MaxLitVar) \ {0} : call = [op |-> "int", x |-> x]

\* int2lit on x and on -x
Int2Lit ==
    /\ call.op = "int"
    /\ call' = [op |-> "lit", x |-> call.x, l |-> int2lit(call.x), m |-> int2lit(-call.x)]
    /\ UNCHANGED <<vars, trail, trail_lim, q_head, cp, var_order, counters,
                   an_learnt_lits, local, pc, ok, cnf, given, result>>

\* int, negate, vi and lit on the literal l
LitMethods ==
    /\ call.op = "lit"
    /\ call' = [op |-> "methods", x |-> call.x, l |-> call.l, m |-> call.m,
                int |-> lit2int(call.l),
                neg |-> negate(call.l),
                negneg |-> negate(negate(call.l)),
                vi |-> vi(call.l),
                negvi |-> vi(negate(call.l)),
                lit_true |-> var2lit(vi(call.l), LTRUE),
                lit_false |-> var2lit(vi(call.l), LFALSE)]
    /\ UNCHANGED <<vars, trail, trail_lim, q_head, cp, var_order, counters,
                   an_learnt_lits, local, pc, ok, cnf, given, result>>

LitNext == Int2Lit \/ LitMethods

LitSpec == LitInit /\ [][LitNext]_solver_vars

\* ------------------------------------------------- the restart control alone
\* search() seen from Restart: every conflict increments NumOfBackjump and ends
\* in block_restart, every propagation without conflict ends in force_restart;
\* the two EMA tests are free inputs.  call remembers the latest decision.
RestartInit ==
    /\ cnf = [nv |-> 1, clauses |-> <<>>]
    /\ vars = [v \in 0..num_vars |-> NewVar]
    /\ trail = <<>>
    /\ trail_lim = <<>>
    /\ q_head = 0
    /\ cp = [k \in {Removable, Permanent, Binclause} |-> ClausePackBuild(k, num_vars)]
    /\ var_order = VarIdHeapNew(num_vars, num_vars)
    /\ counters = [conflicts |-> 0, restarts |-> 0, block_restarts |-> 0, reductions |-> 0,
                   next_restart |-> FirstRestart, next_reduction |-> LateReduction,
                   cur_restart |-> 1, num_solved_vars |-> 0,
                   cla_inc |-> ActivityUnit, chan_seok |-> FALSE,
                   lbd_seen |-> [i \in 0..num_vars |-> 0]]
    /\ an_learnt_lits = <<>>
    /\ local = NoLocal
    /\ pc = "branch"
    /\ ok = TRUE
    /\ given = <<>>
    /\ result = <<>>
    /\ call = [op |-> "restart", kind |-> "none", last |-> 0]

\* the latest restart decision: its kind and the conflict count it was taken at
RestartDecision(S) ==
    IF S.cnt.restarts # counters.restarts
    THEN [op |-> "restart", kind |-> "force", last |-> S.cnt.conflicts]
    ELSE IF S.cnt.block_restarts # counters.block_restarts
         THEN [op |-> "restart", kind |-> "block", last |-> S.cnt.conflicts]
         ELSE call

\* search(): a conflict: NumOfBackjump += 1, ..., block_restart(lbd, d)
RestartConflict(should_block) ==
    /\ call.op = "restart"
    /\ counters.conflicts < MaxConflicts
    /\ LET S == block_restart([Cur EXCEPT !.cnt.conflicts = @ + 1], should_block)
       IN  /\ Install(S)
           /\ call' = RestartDecision(S)
    /\ UNCHANGED <<an_learnt_lits, local, pc, ok, cnf, given, result>>

\* search(): no conflict: force_restart()
RestartQuiet(should_force) ==
    /\ call.op = "restart"
    /\ LET S == force_restart(Cur, should_force)
       IN  /\ Install(S)
           /\ call' = RestartDecision(S)
    /\ UNCHANGED <<an_learnt_lits, local, pc, ok, cnf, given, result>>

RestartNext ==
    \E b \in BOOLEAN : RestartConflict(b) \/ RestartQuiet(b)

RestartSpec == RestartInit /\ [][RestartNext]_solver_vars

\* the clause ids a client can name: NULL_CLAUSE and the first clause of each partition
ClientCids == {NULL_CLAUSE} \cup {id_from(k, 1) : k \in {kk \in DOMAIN cp : Len(cp[kk].clauses) >= 1}}

\* a client of the SolveSAT trait calls enqueue(l, cid) between two rounds of
\* the search loop; the run is not followed after the call
EnqueueCall(l, cid) ==
    /\ pc = "decide"
    /\ LET r == enqueue(Cur, l, cid)
       IN  /\ Install(r.st)
           /\ call' = [op |-> "enqueue", l |-> l, cid |-> cid, ret |-> r.ret, before |-> Cur]
    /\ pc' = "called"
    /\ UNCHANGED <<an_learnt_lits, local, ok, cnf, given, result>>

ApiNext ==
    \/ Next
    \/ \E l \in 2..(2 * num_vars + 1) : \E cid \in ClientCids : EnqueueCall(l, cid)

\* the solver together with the direct calls of its clients
ApiSpec == Init /\ [][ApiNext]_solver_vars


\* ------------------------------------------- a problem with deep decisions
\* a problem of LEVEL_BITMAP_SIZE + 3 variables: no clause holds the variables
\* above 5, so the search decides 1, then N, N-1, ..., 6 at the levels 1 to
\* LEVEL_BITMAP_SIZE - 1, decides 5 at level LEVEL_BITMAP_SIZE, which implies 2,
\* and decides 4 at the next level, which implies 3 and falsifies the last clause
DeepProblem ==
    [nv |-> LEVEL_BITMAP_SIZE + 3,
     clauses |-> << <<-5, 2>>, <<-4, -2, 3>>, <<-4, -2, -3>> >>]

\* the state after construction, for the generated problems and the deep one
DeepInit ==
    /\ cnf \in Problems \cup {DeepProblem}
    /\ vars = [v \in 0..num_vars |-> NewVar]
    /\ trail = <<>>
    /\ trail_lim = <<>>
    /\ q_head = 0
    /\ cp = [k \in {Removable, Permanent, Binclause} |-> ClausePackBuild(k, num_vars)]
    /\ var_order = VarIdHeapNew(num_vars, num_vars)
    /\ \E b \in BOOLEAN, r \in {FirstReduction, LateReduction} :
         counters = [conflicts |-> 0, restarts |-> 0, block_restarts |-> 0, reductions |-> 0,
                     next_restart |-> FirstRestart, next_reduction |-> r,
                     cur_restart |-> 1, num_solved_vars |-> 0,
                     var_inc |-> ActivityUnit, cla_inc |-> ActivityUnit, chan_seok |-> b,
                     lbd_seen |-> [i \in 0..num_vars |-> 0]]
    /\ an_learnt_lits = <<>>
    /\ local = NoLocal
    /\ pc = "load"
    /\ ok = TRUE
    /\ given = <<>>
    /\ result = <<>>
    /\ call = NoCall

DeepSpec == DeepInit /\ [][Next]_solver_vars

\* ------------------------------------------- a later first reduction
\* TwoLearnts with its variables above 1 moved up by one and a third conflict
\* on the free variable 2: the two ternary learnt clauses (-7 -8 -1) and
\* (7 -4 -3) are both unlocked when the unit (-6) is learnt at the third conflict
ThreeConflicts ==
    [nv |-> 8, clauses |-> << <<-1, 3>>, <<-1, 4>>, <<-7, -1, 5>>, <<-7, -8, -5>>,
                              <<7, -3, 6>>, <<7, -4, -6>>, <<-6, 2>>, <<-6, -2>> >>]

\* the conflict of (-2 -3 -5) at level 4 is resolved with (-3 -4 2): analyze
\* returns (-3 -5 -4), its second literal at level 2 and its third at level 3
SwapLearnt ==
    [nv |-> 5, clauses |-> << <<-2, -3, -5>>, <<-3, -4, 2>> >>]

\* the first conflict, at level 5, leaves the learnt clause (-5 -6 -1 -7 -8) of
\* LBD 5; the second and the third conflict leave the units (-4) and (3), so
\* that this clause is the one candidate of the first reduction
MedianFive ==
    [nv |-> 8, clauses |-> << <<-1, -8, -7, -6, -5, 4>>, <<-5, -4, -1>>, <<-4, 3>>, <<-4, -3>>,
                              <<3, 2>>, <<3, -2>>, <<-3, 2>>, <<-3, -2>> >>]

\* the state after construction with the first reduction due one conflict
\* later, so that reduce meets more than one candidate
ReduceInit ==
    /\ cnf \in Problems \cup {ThreeConflicts, SwapLearnt, MedianFive}
    /\ vars = [v \in 0..num_vars |-> NewVar]
    /\ trail = <<>>
    /\ trail_lim = <<>>
    /\ q_head = 0
    /\ cp = [k \in {Removable, Permanent, Binclause} |-> ClausePackBuild(k, num_vars)]
    /\ var_order = VarIdHeapNew(num_vars, num_vars)
    /\ \E b \in BOOLEAN :
         counters = [conflicts |-> 0, restarts |-> 0, block_restarts |-> 0, reductions |-> 0,
                     next_restart |-> FirstRestart, next_reduction |-> FirstReduction + 1,
                     cur_restart |-> 1, num_solved_vars |-> 0,
                     var_inc |-> ActivityUnit, cla_inc |-> ActivityUnit, chan_seok |-> b,
                     lbd_seen |-> [i \in 0..num_vars |-> 0]]
    /\ an_learnt_lits = <<>>
    /\ local = NoLocal
    /\ pc = "load"
    /\ ok = TRUE
    /\ given = <<>>
    /\ result = <<>>
    /\ call = NoCall

ReduceSpec == ReduceInit /\ [][Next]_solver_vars

\* ------------------------------------------------------- ClauseListIter
\* Iterator::next for ClauseListIter, repeated until None: the record at
\* next_index is read, next_index moves to its link for target, and the item
\* handed out is the record at the new next_index; items are record indices,
\* 0 being the null clause that every partition keeps at index 0
RECURSIVE iter_next(_, _, _, _)
iter_next(pk, target, next_index, fuel) ==
    IF next_index = NULL_INDEX \/ fuel = 0 THEN <<>>
    ELSE LET c == pk.clauses[next_index]
             n == c.next_watcher[IF c.lit[1] # target THEN 2 ELSE 1]
         IN  <<n>> \o iter_next(pk, target, n, fuel - 1)

\* ClausePack::iter_watcher(p), collected
iter_watcher(pk, p) == iter_next(pk, p, pk.watcher[negate(p)], 2 * Len(pk.clauses) + 1)

\* a client traverses the watchers of p in partition k between two rounds of
\* the search loop; the run is not followed after the call
IterWatcher(k, p) ==
    /\ pc = "decide"
    /\ call' = [op |-> "iter", kind |-> k, p |-> p, items |-> iter_watcher(cp[k], p)]
    /\ pc' = "called"
    /\ UNCHANGED <<vars, trail, trail_lim, q_head, cp, var_order, counters,
                   an_learnt_lits, local, ok, cnf, given, result>>

IterNext ==
    \/ Next
    \/ \E k \in {Removable, Permanent, Binclause} : \E p \in 2..(2 * num_vars + 1) : IterWatcher(k, p)

\* the solver together with the traversals of its clients
IterSpec == Init /\ [][IterNext]_solver_vars

\* ------------------------------------------------------------ properties
\* the ordinary literals of a partition: every watch list but the two sentinel lists
OrdinaryLits(pk) == DOMAIN pk.watcher \ {GARBAGE_LIT, RECYCLE_LIT}

\* the records met from the head of the list of literal l, following in each
\* record the link of the slot that watches the negation of l, as the sweeps do;
\* fuel bounds the walk of a list that has become cyclic
RECURSIVE chain_from(_, _, _, _)
chain_from(pk, l, ci, fuel) ==
    IF ci = NULL_INDEX \/ fuel = 0 THEN <<>>
    ELSE LET c == pk.clauses[ci]
         IN  <<ci>> \o chain_from(pk, l, c.next_watcher[IF c.lit[1] = negate(l) THEN 1 ELSE 2],
                                  fuel - 1)

WatchChain(pk, l) == chain_from(pk, l, pk.watcher[l], 2 * Len(pk.clauses) + 1)

Count(x, seq) == Cardinality({k \in DOMAIN seq : seq[k] = x})

\* 0-based trail position of the literal of variable v, for an assigned v
TrailPos(v) == (CHOOSE k \in DOMAIN trail : vi(trail[k]) = v) - 1

Assigned(v) == vars[v].assign # BOTTOM

\* the DIMACS integer a certificate vector gives to the variable of literal l
LitTrueIn(res, l) == res[vi(l)] = lit2int(l)

\* the brute-force oracle on a DIMACS problem
Satisfiable(p) ==
    \E a \in [1..p.nv -> BOOLEAN] :
        \A i \in DOMAIN p.clauses :
            \E k \in DOMAIN p.clauses[i] :
                LET x == p.clauses[i][k] IN IF x > 0 THEN a[x] ELSE ~a[0 - x]

\* C1: when solve() returns SAT, the certificate gives every variable 1..N the
\* value TRUE or FALSE and makes a literal TRUE in every clause that was passed
\* to add_clause
C1_ModelSatisfiesInput ==
    pc = "SAT" =>
        /\ \A v \in 1..num_vars : result[v] \in {v, 0 - v}
        /\ \A i \in DOMAIN given : \E k \in DOMAIN given[i] : LitTrueIn(result, given[i][k])

\* a model reported after at least one learnt clause, on a problem of three clauses or more
C1_Witness == pc = "SAT" /\ Len(given) >= 3 /\ counters.conflicts >= 1

\* C2: the verdict agrees with the brute-force oracle: UNSAT (add_clause returned
\* false, or search met a conflict at the root level) only on an unsatisfiable
\* problem, SAT only on a satisfiable one
C2_VerdictAgreesWithOracle ==
    /\ pc \in {"sat", "SAT"} => Satisfiable(cnf)
    /\ pc \in {"unsat", "UNSAT"} => ~Satisfiable(cnf)

\* UNSAT by a conflict at the root level, met after a conflict above it
C2_Witness == pc = "UNSAT" /\ ok /\ counters.conflicts >= 2

\* the positions at which an action of Next is enabled
CanStep ==
    pc \in {"load", "propagate", "branch", "simplify", "simplified", "decide", "backjump",
            "learn", "reduce", "reduced", "block", "sat", "unsat"}

\* C3: the search loop terminates with SAT or UNSAT: in every state that is not
\* a returned verdict the solver can still take a step
C3_SearchReturns == pc \in {"SAT", "UNSAT"} \/ CanStep

\* the position of the solver within one conflict count and restart count: the
\* loader by the clauses given, the conflict path by its steps, the search loop
\* by the decision level and then by its steps, and the returns last
Phase ==
    CASE pc = "load" -> Len(given)
      [] pc = "backjump" -> 10
      [] pc = "learn" -> 11
      [] pc = "reduce" -> 12
      [] pc = "reduced" -> 13
      [] pc = "block" -> 14
      [] pc = "propagate" -> 20 + 10 * Len(trail_lim)
      [] pc = "branch" -> 21 + 10 * Len(trail_lim)
      [] pc = "simplify" -> 22 + 10 * Len(trail_lim)
      [] pc = "simplified" -> 23 + 10 * Len(trail_lim)
      [] pc = "decide" -> 24 + 10 * Len(trail_lim)
      [] pc \in {"sat", "unsat", "panic"} -> 900
      [] OTHER -> 901

\* conflicts, then restarts, then Phase, in lexicographic order
Rank == (counters.conflicts * 100 + counters.restarts) * 1000 + Phase

\* C3, the part on alternating forever: every step of the solver, a forced
\* restart and a reduction included, strictly increases Rank, so the finite
\* state graph has no cycle and every run ends in a state without a successor
C3_EveryStepAdvances == [][Rank' > Rank]_solver_vars

\* the clause has all its literals FALSE
AllFalse(c) == \A k \in 1..ClauseLen(c) : assigned(vars, ClauseLits(c)[k]) = LFALSE

\* the clause has exactly one unassigned literal and all the others FALSE
UnitUnderTrail(c) ==
    \E k \in 1..ClauseLen(c) :
        /\ assigned(vars, ClauseLits(c)[k]) = BOTTOM
        /\ \A j \in 1..ClauseLen(c) : j # k => assigned(vars, ClauseLits(c)[j]) = LFALSE

\* C4: after propagate() returns NULL_CLAUSE no live clause of any partition has
\* all its literals FALSE, and none has one unassigned literal with all the others FALSE
C4_PropagationComplete ==
    (pc = "branch" /\ local.ci = NULL_CLAUSE) =>
        \A k \in DOMAIN cp : \A i \in DOMAIN cp[k].clauses :
            LET c == cp[k].clauses[i]
            IN  ~c.dead => ~AllFalse(c) /\ ~UnitUnderTrail(c)

\* propagate returned NULL_CLAUSE above the root level, after it enqueued a
\* literal with a learnt ternary clause as its reason
C4_Witness ==
    /\ pc = "branch" /\ local.ci = NULL_CLAUSE /\ local.d >= 1
    /\ \E v \in 1..num_vars : Assigned(v) /\ to_kind(vars[v].reason) = Removable
                              /\ to_index(vars[v].reason) # NULL_INDEX

\* C5: in every state (each is the state after an operation has returned) every
\* live clause is met exactly once on the list of the negation of each of its two
\* watched literals, and on no other ordinary list
C5_WatchSound ==
    \A k \in DOMAIN cp : \A i \in DOMAIN cp[k].clauses :
        LET pk == cp[k]
            c == pk.clauses[i]
        IN  ~c.dead =>
                \A l \in OrdinaryLits(pk) :
                    Count(i, WatchChain(pk, l)) =
                        (IF l = negate(c.lit[1]) THEN 1 ELSE 0) + (IF l = negate(c.lit[2]) THEN 1 ELSE 0)

\* propagate returned a conflict with a part of the trail unscanned, in a
\* database of three live clauses or more one of which had a watch replaced
C5_Witness ==
    /\ pc = "branch" /\ local.ci # NULL_CLAUSE /\ q_head < Len(trail)
    /\ \E k \in DOMAIN cp : \E i \in DOMAIN cp[k].clauses :
           ~cp[k].clauses[i].dead /\ Len(cp[k].clauses[i].lits) >= 1
           /\ assigned(vars, cp[k].clauses[i].lits[1]) = LFALSE

\* C6: after garbage_collect has returned, in reduce and in simplify, no Dead
\* clause is met on the list of an ordinary literal
C6_NoDeadOnWatchLists ==
    pc \in {"reduced", "simplified"} =>
        \A k \in DOMAIN cp : \A l \in OrdinaryLits(cp[k]) :
            \A j \in DOMAIN WatchChain(cp[k], l) : ~cp[k].clauses[WatchChain(cp[k], l)[j]].dead

\* simplify has collected a satisfied clause while another clause stays live
C6_Witness ==
    /\ pc = "simplified"
    /\ \E k \in DOMAIN cp : \E i, j \in DOMAIN cp[k].clauses :
           cp[k].clauses[i].dead /\ cp[k].clauses[i].lit = <<RECYCLE_LIT, RECYCLE_LIT>>
           /\ ~cp[k].clauses[j].dead

\* C7: a variable is assigned iff exactly one trail position holds a literal of
\* it, that literal has the sign of the assignment, and the recorded level is the
\* number of trail_lim markers at or below that position
C7_TrailConsistent ==
    \A v \in 1..num_vars :
        LET at == {k \in DOMAIN trail : vi(trail[k]) = v}
        IN  /\ Assigned(v) <=> Cardinality(at) = 1
            /\ ~Assigned(v) => at = {}
            /\ Assigned(v) =>
                   \A k \in at :
                       /\ lbool(trail[k]) = vars[v].assign
                       /\ vars[v].level = Cardinality({m \in DOMAIN trail_lim : trail_lim[m] <= k - 1})

\* after a backjump: a cancelled variable, and a propagated variable on a level above the root
C7_Witness ==
    /\ pc = "learn"
    /\ \E v \in 1..num_vars : ~Assigned(v) /\ vars[v].phase # BOTTOM
    /\ \E v \in 1..num_vars : Assigned(v) /\ vars[v].level >= 1 /\ vars[v].reason # NULL_CLAUSE

\* C8: the learnt clause of a conflict analysed at level dl > 0 has exactly one
\* literal at level dl, at position 0, and every other literal at a level <= bl < dl
C8_LearntAsserting ==
    pc = "backjump" =>
        LET dl == local.d
            lv(k) == vars[vi(an_learnt_lits[k])].level
        IN  /\ Len(an_learnt_lits) >= 1
            /\ lv(1) = dl
            /\ \A k \in 2..Len(an_learnt_lits) : lv(k) <= local.bl
            /\ local.bl < dl

\* analyze has returned a ternary learnt clause
C8_Witness == pc = "backjump" /\ Len(an_learnt_lits) = 3 /\ local.bl >= 1

\* the reason clause r of the state before a step is left alone by the step: not
\* Dead after it, with the same literals, and on the lists of its two watches
ReasonKept(r) ==
    LET c == cp[to_kind(r)].clauses[to_index(r)]
        pk1 == cp'[to_kind(r)]
        c1 == pk1.clauses[to_index(r)]
    IN  /\ ~c1.dead
        /\ ClauseLits(c1) = ClauseLits(c)
        /\ Count(to_index(r), WatchChain(pk1, negate(c1.lit[1]))) = 1
        /\ Count(to_index(r), WatchChain(pk1, negate(c1.lit[2]))) = 1

\* C9: a reduction, at whatever decision level, leaves every clause that is the
\* reason of an assigned variable not Dead, linked and with its literals
C9_ReduceKeepsReasons ==
    [][(pc = "reduce" /\ pc' = "reduced") =>
          \A v \in 1..num_vars :
              (Assigned(v) /\ vars[v].reason # NULL_CLAUSE) => ReasonKept(vars[v].reason)]_solver_vars

\* a reduction above the root level has collected a Removable clause while
\* another Removable clause is the reason of an assigned variable
C9_Witness ==
    /\ pc = "reduced" /\ decision_level(trail_lim) >= 1
    /\ \E i \in DOMAIN cp[Removable].clauses :
           cp[Removable].clauses[i].lit = <<RECYCLE_LIT, RECYCLE_LIT>>
    /\ \E v \in 1..num_vars : Assigned(v) /\ to_kind(vars[v].reason) = Removable
                              /\ to_index(vars[v].reason) # NULL_INDEX

\* C10: outside propagation the reason of an assigned variable is NULL_CLAUSE or
\* a clause that is not Dead nor recycled, holds the trail literal of the
\* variable, and has every other literal FALSE and earlier on the trail
C10_ReasonValid ==
    \A v \in 1..num_vars :
        (Assigned(v) /\ vars[v].reason # NULL_CLAUSE) =>
            LET r == vars[v].reason
                l == var2lit(v, vars[v].assign)
            IN  /\ to_index(r) \in DOMAIN cp[to_kind(r)].clauses
                /\ LET c == clause_of(Cur, r)
                   IN  /\ ~c.dead
                       /\ c.lit # <<RECYCLE_LIT, RECYCLE_LIT>>
                       /\ \E k \in 1..ClauseLen(c) : ClauseLits(c)[k] = l
                       /\ \A k \in 1..ClauseLen(c) :
                              ClauseLits(c)[k] # l =>
                                  /\ assigned(vars, ClauseLits(c)[k]) = LFALSE
                                  /\ TrailPos(vi(ClauseLits(c)[k])) < TrailPos(v)

\* a recycled record, reused by new_clause (which clears the kind bits of a
\* record it reuses), is the reason of an assigned variable
C10_Witness ==
    \E v \in 1..num_vars :
        /\ Assigned(v) /\ to_index(vars[v].reason) # NULL_INDEX
        /\ clause_of(Cur, vars[v].reason).kind # to_kind(vars[v].reason)

\* C11: enqueue on an unassigned variable assigns it, records reason and level
\* and pushes the literal, alone, on the trail; on a variable that has the value
\* of the literal it returns true and changes nothing; on a variable that has the
\* opposite value it returns false and changes nothing
C11_EnqueueContract ==
    (pc = "called" /\ call.op = "enqueue") =>
        LET b == call.before
            v == vi(call.l)
        IN  IF b.vars[v].assign = BOTTOM
            THEN /\ call.ret
                 /\ vars[v].assign = lbool(call.l)
                 /\ vars[v].reason = call.cid
                 /\ vars[v].level = Len(trail_lim)
                 /\ trail = Append(b.trail, call.l)
                 /\ \A w \in DOMAIN vars : w # v => vars[w] = b.vars[w]
                 /\ trail_lim = b.trail_lim /\ q_head = b.q_head
            ELSE /\ call.ret = (b.vars[v].assign = lbool(call.l))
                 /\ Cur = b

\* enqueue has returned false: the variable had the opposite value, given by a
\* propagation above the root level
C11_Witness ==
    /\ pc = "called" /\ call.op = "enqueue" /\ ~call.ret
    /\ call.before.vars[vi(call.l)].reason # NULL_CLAUSE
    /\ call.before.vars[vi(call.l)].level >= 1

\* the step is a call of cancel_until(lv) at a decision level above lv: the
\* trail is cut at trail_lim[lv], every popped variable is unassigned with its
\* old assignment as phase, no reason, and a place in the heap, trail_lim is cut
\* to lv markers, q_head is the new trail length, and no other variable changes
CancelledTo(lv) ==
    LET lim == trail_lim[lv + 1]
        popped == {vi(trail[k]) : k \in (lim + 1)..Len(trail)}
    IN  /\ trail' = SubSeq(trail, 1, lim)
        /\ trail_lim' = SubSeq(trail_lim, 1, lv)
        /\ q_head' = Len(trail')
        /\ \A v \in popped :
               /\ vars'[v].assign = BOTTOM
               /\ vars'[v].phase = vars[v].assign
               /\ vars'[v].reason = NULL_CLAUSE
               /\ heap_contains(var_order', v)
        /\ \A v \in (DOMAIN vars) \ popped : vars'[v] = vars[v]

\* C12: every call of cancel_until(lv) made above level lv, by the backjump of
\* search (lv = the backtrack level), by a forced restart and by solve (lv = 0),
\* has the effect CancelledTo(lv)
C12_CancelUntil ==
    [][/\ (pc = "backjump" /\ Len(trail_lim) > local.bl) => CancelledTo(local.bl)
       /\ (pc \in {"sat", "unsat"} /\ Len(trail_lim) > 0) => CancelledTo(0)
       /\ (pc = "branch" /\ counters'.restarts # counters.restarts /\ Len(trail_lim) > 0)
              => CancelledTo(0)]_solver_vars

\* a backjump to a level above the root has popped two variables or more, one
\* of them assigned FALSE, and left a part of the trail in place
C12_Witness ==
    /\ pc = "learn" /\ Len(trail_lim) >= 1 /\ q_head = Len(trail)
    /\ Cardinality({v \in 1..num_vars : ~Assigned(v) /\ vars[v].phase # BOTTOM}) >= 2
    /\ \E v \in 1..num_vars : ~Assigned(v) /\ vars[v].phase = LFALSE /\ heap_contains(var_order, v)

\* C13: when propagate has returned a conflict clause, q_head is the length of
\* the trail
C13_ConflictAtTail ==
    (pc = "branch" /\ local.ci # NULL_CLAUSE) => q_head = Len(trail)

\* C14: propagate returns NULL_CLAUSE with q_head at the end of the trail, or
\* the id of a live clause all of whose literals are FALSE
C14_PropagateResult ==
    pc = "branch" =>
        IF local.ci = NULL_CLAUSE THEN q_head = Len(trail)
        ELSE /\ to_kind(local.ci) \in DOMAIN cp
             /\ to_index(local.ci) \in DOMAIN cp[to_kind(local.ci)].clauses
             /\ ~clause_of(Cur, local.ci).dead
             /\ AllFalse(clause_of(Cur, local.ci))

\* propagate returned a clause of three literals or more as the conflict, two
\* decision levels or more above the root, after an earlier conflict
C14_Witness ==
    /\ pc = "branch" /\ local.ci # NULL_CLAUSE /\ Len(trail_lim) >= 2
    /\ counters.conflicts >= 1
    /\ ClauseLen(clause_of(Cur, local.ci)) >= 3

\* propagate returned NULL_CLAUSE after it scanned three trail literals or more
\* in one call, the last of them enqueued by the call itself
C14_WitnessNoConflict ==
    /\ pc = "branch" /\ local.ci = NULL_CLAUSE /\ q_head = Len(trail)
    /\ Len(trail_lim) >= 1 /\ Len(trail) >= trail_lim[Len(trail_lim)] + 3

\* the literals of v, the last clause handed to add_clause, that are not FALSE
AddRest(v) == {v[i] : i \in {j \in DOMAIN v : assigned(vars, v[j]) # LFALSE}}

\* v holds a TRUE literal or a complementary pair
AddSatisfied(v) ==
    \/ \E i \in DOMAIN v : assigned(vars, v[i]) = LTRUE
    \/ \E i, j \in DOMAIN v : v[i] = negate(v[j])

\* the step installs exactly one record, in partition kind, with the literals ls
AddInstalls(kind, ls) ==
    /\ Len(cp'[kind].clauses) = Len(cp[kind].clauses) + 1
    /\ \A i \in DOMAIN cp[kind].clauses : cp'[kind].clauses[i] = cp[kind].clauses[i]
    /\ \A k \in (DOMAIN cp) \ {kind} : cp'[k] = cp[k]
    /\ LET c == cp'[kind].clauses[Len(cp'[kind].clauses)]
       IN  /\ ~c.dead /\ ~c.learnt
           /\ ClauseLen(c) = Cardinality(ls)
           /\ {ClauseLits(c)[i] : i \in 1..ClauseLen(c)} = ls
    /\ vars' = vars /\ trail' = trail

\* C15: add_clause adds nothing and returns true on a clause with a TRUE literal
\* or a complementary pair; otherwise, with the duplicates and the FALSE literals
\* removed, no literal left returns false, one literal left is enqueued at level 0
\* with reason NULL_CLAUSE, two or more install exactly one clause of exactly
\* those literals, Binclause when two, Permanent otherwise, and return true
C15_AddClauseRoutes ==
    [][(pc = "load" /\ pc' \in {"load", "unsat"}) =>
          LET v == given'[Len(given')]
              rest == AddRest(v)
          IN  IF AddSatisfied(v)
              THEN ok' /\ cp' = cp /\ vars' = vars /\ trail' = trail
              ELSE IF rest = {}
              THEN ~ok' /\ cp' = cp /\ vars' = vars /\ trail' = trail
              ELSE IF Cardinality(rest) = 1
              THEN LET l == CHOOSE x \in rest : TRUE
                   IN  /\ ok' = (assigned(vars, l) # LFALSE)
                       /\ trail' = Append(trail, l)
                       /\ vars'[vi(l)].assign = lbool(l)
                       /\ vars'[vi(l)].level = 0
                       /\ vars'[vi(l)].reason = NULL_CLAUSE
                       /\ cp' = cp
              ELSE /\ ok'
                   /\ AddInstalls(IF Cardinality(rest) = 2 THEN Binclause ELSE Permanent, rest)
      ]_solver_vars

\* the last clause handed to add_clause had three literals and was installed
\* as a Binclause, after a unit clause was enqueued
C15_Witness ==
    /\ pc = "load" /\ Len(given) >= 2 /\ Len(trail) >= 1
    /\ Len(given[Len(given)]) = 3
    /\ Len(cp[Binclause].clauses) >= 1
    /\ Len(cp[Permanent].clauses) = 0

\* every variable stored in heap h has an activity no greater than its parent's
HeapOrdered(h, vs) ==
    \A i \in 2..h.idxs[0] : vs[h.heap[i]].activity <= vs[h.heap[i \div 2]].activity

\* C16: in every state (each is the state after the heap operations and the
\* activity changes of a step) the heap is ordered by activity
C16_HeapOrdered == HeapOrdered(var_order, vars)

\* C17 as stated: the variables stored in the heap are exactly the unassigned ones
C17_HeapIsUnassigned ==
    HeapMembers(var_order) = {v \in 1..num_vars : ~Assigned(v)}

\* C17: every unassigned variable is stored in the heap; the heap may hold
\* assigned variables as well, which select_var drops when they come out
C17_HeapHoldsUnassigned ==
    \A v \in 1..num_vars : ~Assigned(v) => heap_contains(var_order, v)

\* after a conflict the heap holds a variable that cancel_until put back and a
\* variable that propagation assigned while it stayed in the heap
C17_Witness ==
    /\ counters.conflicts >= 1 /\ pc = "decide"
    /\ \E v \in 1..num_vars : ~Assigned(v) /\ vars[v].phase # BOTTOM /\ heap_contains(var_order, v)
    /\ \E v \in 1..num_vars : Assigned(v) /\ vars[v].reason # NULL_CLAUSE /\ heap_contains(var_order, v)

\* search asks for a decision: no conflict, not every variable assigned, and
\* the trail is scanned to its end
DecisionAsked == pc \in {"decide", "simplified"} /\ Len(trail) <= q_head

\* C18: when search asks for a decision, select_var does not pop from an empty
\* heap and returns an unassigned variable
C18_SelectReturnsUnassigned ==
    DecisionAsked =>
        LET r == select_var(var_order, vars)
        IN  /\ r.vi # 0
            /\ vars[r.vi].assign = BOTTOM
            /\ ~heap_contains(r.heap, r.vi)

\* a decision is asked while the root of the heap is an assigned variable, so
\* select_var pops more than once
C18_Witness ==
    /\ DecisionAsked /\ var_order.idxs[0] >= 2
    /\ Assigned(var_order.heap[1])
    /\ \E v \in 1..num_vars : ~Assigned(v) /\ vars[v].phase # BOTTOM

\* the non-zero levels recorded for the variables of the literals ls
NonZeroLevels(vs, ls) == {vs[vi(ls[i])].level : i \in DOMAIN ls} \ {0}

\* C19: the LBD that search computes for a learnt clause of two literals or
\* more (lbd_vec) is the number of distinct non-zero levels of its literals
C19_LbdIsLevelCount ==
    [][(pc = "learn" /\ Len(an_learnt_lits) >= 2) =>
          local'.lbd = Cardinality(NonZeroLevels(vars, an_learnt_lits))]_solver_vars

\* C20: in every state (each is the state after the bumps of a step) no clause
\* of any partition has an activity above the limit
C20_ActivityBounded ==
    \A k \in DOMAIN cp : \A i \in DOMAIN cp[k].clauses :
        cp[k].clauses[i].activity <= ActivityLimit

\* the same for the learnt clauses of the Removable partition, the ones the
\* rescale of bump_cid visits
C20_RemovableBounded ==
    \A i \in DOMAIN cp[Removable].clauses :
        cp[Removable].clauses[i].learnt => cp[Removable].clauses[i].activity <= ActivityLimit

\* C21: simplify has just returned at level 0; a second call in that state
\* changes nothing in the clause partitions nor in the variables
C21_SimplifyIdempotent ==
    pc = "simplified" => simplify(Cur).cp = cp /\ simplify(Cur).vars = vars

\* the same without the touched flags of the two list heads that
\* garbage_collect does not visit (the garbage and the recycle list)
C21_ListsUnchanged ==
    pc = "simplified" =>
        /\ simplify(Cur).vars = vars
        /\ \A k \in DOMAIN cp :
               /\ simplify(Cur).cp[k].clauses = cp[k].clauses
               /\ simplify(Cur).cp[k].watcher = cp[k].watcher
               /\ \A l \in 2..(2 * num_vars + 1) : simplify(Cur).cp[k].touched[l] = cp[k].touched[l]

\* no live clause holds a literal that is TRUE at decision level 0
NoLiveClauseSatisfiedAtRoot ==
    \A k \in DOMAIN cp : \A i \in DOMAIN cp[k].clauses :
        LET c == cp[k].clauses[i]
        IN  ~c.dead =>
                \A j \in 1..ClauseLen(c) :
                    ~(assigned(vars, ClauseLits(c)[j]) = LTRUE /\ vars[vi(ClauseLits(c)[j])].level = 0)

\* C22 as stated: in every state no live clause holds a literal TRUE at level 0
C22_NeverSatisfiedAtRoot == NoLiveClauseSatisfiedAtRoot

\* C22: whenever search is about to decide, after the simplify of the round if
\* there was one, no live clause holds a literal TRUE at level 0
C22_CleanAtDecision == DecisionAsked => NoLiveClauseSatisfiedAtRoot

\* simplify has removed a clause satisfied by a unit learnt at a conflict and
\* has left a live clause in the database
C22_Witness ==
    /\ pc = "simplified" /\ counters.conflicts >= 1 /\ Len(trail) >= 1
    /\ \E k \in DOMAIN cp : \E i \in DOMAIN cp[k].clauses : cp[k].clauses[i].dead
    /\ \E k \in DOMAIN cp : \E i \in DOMAIN cp[k].clauses : ~cp[k].clauses[i].dead

\* the absolute value of x
Abs(x) == IF x < 0 THEN -x ELSE x

\* C23: for a nonzero integer x and l = int2lit(x): l.int() = x, l.negate() =
\* int2lit(-x), negate twice gives l back, negate changes bit 0 and nothing
\* else, vi of both polarities is |x|, and lit(LTRUE) = 2v, lit(LFALSE) = 2v + 1
C23_LitRoundTrip ==
    call.op = "methods" =>
        /\ call.int = call.x
        /\ call.neg = call.m
        /\ call.negneg = call.l
        /\ call.neg \div 2 = call.l \div 2 /\ call.neg % 2 # call.l % 2
        /\ call.vi = Abs(call.x) /\ call.negvi = Abs(call.x)
        /\ call.lit_true = 2 * call.vi /\ call.lit_false = 2 * call.vi + 1
        /\ call.l = (IF call.x > 0 THEN call.lit_true ELSE call.lit_false)

\* the methods were applied to the literal of the least integer of the range
C23_Witness == call.op = "methods" /\ call.x = -MaxLitVar /\ call.l % 2 = 1

\* C24: a forced restart fires only when the conflict count is at least
\* RestartStep (50) past the count of the latest forced-restart or block-restart
\* decision, whatever the outcome of the LBD test; in particular none fires
\* below c + 50 after a block decision at count c.
C24_ForcedRestartSpacing ==
    [][(counters'.restarts # counters.restarts /\ call.kind # "none")
          => counters.conflicts >= call.last + RestartStep]_solver_vars

\* a forced restart has fired after a block decision
C24_Witness ==
    /\ call.op = "restart"
    /\ call.kind = "force"
    /\ counters.block_restarts >= 1
    /\ counters.conflicts >= BlockAfter + RestartStep

\* arguments of new_clause as its callers build them: literals of distinct
\* variables; the first variable moves with the trail, the two watches take
\* every polarity, and a third literal follows when the polarities differ
NewClauseArgs ==
    IF num_vars < 3 THEN {}
    ELSE LET a == (Len(trail) % num_vars) + 1
             b == (a % num_vars) + 1
             c == (b % num_vars) + 1
         IN  { <<var2lit(a, p), var2lit(b, q)>>
                   \o (IF p = q THEN <<>> ELSE <<var2lit(c, LFALSE)>>) :
                 p \in {LTRUE, LFALSE}, q \in {LTRUE, LFALSE} }

\* the record new_clause will use: the head of the recycle list or a new index
NextRecord(pk) ==
    IF pk.watcher[negate(RECYCLE_LIT)] # NULL_INDEX
    THEN pk.watcher[negate(RECYCLE_LIT)] ELSE Len(pk.clauses) + 1

\* the contract of new_clause(v, rank) on partition pk with result r
NewClauseContract(pk, v, r) ==
    LET cix == to_index(r.cid)
        w0 == negate(v[1])
        w1 == negate(v[2])
    IN  /\ cix # NULL_INDEX
        /\ cix = NextRecord(pk)
        /\ to_kind(r.cid) = pk.kind
        /\ r.pack.clauses[cix].lit = <<v[1], v[2]>>
        /\ ClauseLits(r.pack.clauses[cix]) = v
        /\ ~r.pack.clauses[cix].dead
        /\ WatchChain(r.pack, w0) = <<cix>> \o WatchChain(pk, w0)
        /\ WatchChain(r.pack, w1) = <<cix>> \o WatchChain(pk, w1)
        /\ \A l \in OrdinaryLits(pk) \ {w0, w1} : WatchChain(r.pack, l) = WatchChain(pk, l)
        /\ Len(r.pack.clauses) = IF cix > Len(pk.clauses) THEN cix ELSE Len(pk.clauses)
        /\ \A ci \in (1..Len(pk.clauses)) \ {cix} :
               ~pk.clauses[ci].dead =>
                   /\ ~r.pack.clauses[ci].dead
                   /\ ClauseLits(r.pack.clauses[ci]) = ClauseLits(pk.clauses[ci])

\* C25: at the points where clauses are added (loading and learning), on every
\* partition, new_clause(lits, rank) with two
\* or more literals returns a non-null ID of the partition's kind, stores
\* exactly lits with lits[0] and lits[1] as the watches, and puts the record at
\* the head of the lists of their negations, before the previous heads; every
\* other list and the literals of every other live clause stay as they were,
\* for a fresh record and for one taken from the recycle list.
C25_NewClauseContract ==
    pc \in {"load", "learn"} =>
      \A k \in DOMAIN cp : \A v \in NewClauseArgs :
        NewClauseContract(cp[k], v, new_clause(cp[k], v, Len(v), TRUE, FALSE))

\* search is about to install a learnt clause in a partition whose recycle list
\* holds a record, next to live clauses
C25_Witness ==
    /\ pc = "learn"
    /\ Len(an_learnt_lits) >= 2
    /\ \E k \in DOMAIN cp :
          /\ cp[k].watcher[negate(RECYCLE_LIT)] # NULL_INDEX
          /\ \E ci \in DOMAIN cp[k].clauses : ~cp[k].clauses[ci].dead
          /\ k = IF Len(an_learnt_lits) = 2 THEN Binclause
                 ELSE IF counters.chan_seok THEN Permanent ELSE Removable

\* C26: iter_watcher(p) yields the clauses of the list it traverses, each
\* once and in list order, and nothing else (never the null clause at index 0).
C26_IterYieldsList ==
    call.op = "iter" => call.items = WatchChain(cp[call.kind], negate(call.p))

\* what the traversal does yield: as many items as the list has records, the
\* records after the first one followed by the null clause
C26_IterYieldsSuccessors ==
    call.op = "iter" =>
        LET list == WatchChain(cp[call.kind], negate(call.p))
        IN  /\ Len(call.items) = Len(list)
            /\ list # <<>> => call.items = Tail(list) \o <<NULL_INDEX>>

\* the variables that occur in the clauses of a DIMACS problem
OccVars(p) == UNION {{Abs(p.clauses[i][k]) : k \in DOMAIN p.clauses[i]} : i \in DOMAIN p.clauses}

\* the literal vector ls is a logical consequence of the clauses of p: every
\* assignment (T = the occurring variables that are TRUE) that satisfies the
\* clauses makes a literal of ls TRUE
Implied(p, ls) ==
    \A T \in SUBSET OccVars(p) :
        (\A i \in DOMAIN p.clauses : \E k \in DOMAIN p.clauses[i] :
             LET x == p.clauses[i][k] IN IF x > 0 THEN x \in T ELSE (0 - x) \notin T)
        => \E k \in DOMAIN ls : IF positive(ls[k]) THEN vi(ls[k]) \in T ELSE vi(ls[k]) \notin T

\* C27: minimization drops no literal that is needed, at any decision level,
\* multiples of LEVEL_BITMAP_SIZE included: the learnt clause analyze returns
\* is a logical consequence of the clause set.
C27_LearntIsConsequence ==
    pc = "backjump" => Implied(cnf, an_learnt_lits)

\* the same below level LEVEL_BITMAP_SIZE, where the level filter is exact
C27_ShallowLearntIsConsequence ==
    (pc = "backjump" /\ local.d < LEVEL_BITMAP_SIZE) => Implied(cnf, an_learnt_lits)

\* C28: a conflict above the root level is followed by the backjump to the
\* backtrack level (root_level is 0), then by the learnt clause: it is installed
\* at that level, and when the next propagate starts its first literal is TRUE
\* at the backtrack level with the new clause as reason (NULL_CLAUSE for a
\* unit), every other literal is FALSE, and q_head is the trail index of the
\* first literal.
C28_AssertedAfterConflict ==
    [][/\ (pc = "learn" /\ pc' # "learn") => decision_level(trail_lim) = local.bl
       /\ (pc \in {"block", "reduced"} /\ pc' = "propagate") =>
            LET ls == an_learnt_lits
                l == ls[1]
                r == vars'[vi(l)].reason
            IN  /\ decision_level(trail_lim') = local.bl
                /\ assigned(vars', l) = LTRUE
                /\ vars'[vi(l)].level = local.bl
                /\ \A k \in 2..Len(ls) : assigned(vars', ls[k]) = LFALSE
                /\ q_head' = Len(trail') - 1
                /\ trail'[Len(trail')] = l
                /\ IF Len(ls) = 1 THEN r = NULL_CLAUSE
                   ELSE /\ r # NULL_CLAUSE
                        /\ to_index(r) \in DOMAIN cp'[to_kind(r)].clauses
                        /\ LET c == cp'[to_kind(r)].clauses[to_index(r)]
                           IN  /\ ~c.dead
                               /\ c.lit[1] = l
                               /\ SeqSet(ClauseLits(c)) = SeqSet(ls)]_solver_vars

\* the next propagate is about to start on a learnt clause of two or more
\* literals, asserted above the root level
C28_Witness ==
    /\ pc = "propagate"
    /\ counters.conflicts >= 1
    /\ Len(an_learnt_lits) >= 2
    /\ decision_level(trail_lim) >= 1
    /\ q_head = Len(trail) - 1
    /\ trail[Len(trail)] = an_learnt_lits[1]
    /\ vars[vi(an_learnt_lits[1])].reason # NULL_CLAUSE

\* the outcome of one sweep of the list of trail literal p in partition kind,
\* from state S0 to state S1: each record of the old list is on the new list
\* once if it still watches the negation of p and not at all if it was
\* relinked, nothing else is on the new list, a relinked record keeps its
\* literals and is once on the list of its replacement watch, and every live
\* record of the partition is on the lists of its two watches, once each
SweepContract(S0, S1, kind, p) ==
    LET old == WatchChain(S0.cp[kind], p)
        new == WatchChain(S1.cp[kind], p)
        pk == S1.cp[kind]
    IN  /\ \A ci \in DOMAIN pk.clauses :
              Count(ci, new) = IF Count(ci, old) = 1 /\ negate(p) \in SeqSet(pk.clauses[ci].lit)
                               THEN 1 ELSE 0
        /\ Len(new) <= Len(old)
        /\ \A ci \in SeqSet(old) :
              /\ Count(ci, old) = 1
              /\ SeqSet(ClauseLits(pk.clauses[ci])) = SeqSet(ClauseLits(S0.cp[kind].clauses[ci]))
              /\ negate(p) \notin SeqSet(pk.clauses[ci].lit) =>
                    /\ negate(pk.clauses[ci].lit[2]) # p
                    /\ Count(ci, WatchChain(pk, negate(pk.clauses[ci].lit[2]))) = 1
        /\ \A ci \in DOMAIN pk.clauses : ~pk.clauses[ci].dead =>
              \A l \in OrdinaryLits(pk) :
                  Count(ci, WatchChain(pk, l)) =
                      (IF l = negate(pk.clauses[ci].lit[1]) THEN 1 ELSE 0)
                      + (IF l = negate(pk.clauses[ci].lit[2]) THEN 1 ELSE 0)

\* the for loop of propagate over the partitions for trail literal p, with
\* the contract required of every sweep it makes
RECURSIVE KindsSwept(_, _, _)
KindsSwept(S, p, kinds) ==
    IF kinds = <<>> THEN TRUE
    ELSE LET r == sweep([S EXCEPT !.cp[Head(kinds)].watcher[p] = NULL_INDEX], Head(kinds), p,
                        S.cp[Head(kinds)].watcher[p], HeadPtr(p))
         IN  /\ SweepContract(S, r.st, Head(kinds), p)
             /\ (r.confl # NULL_CLAUSE \/ KindsSwept(r.st, p, Tail(kinds)))

\* the while loop of propagate from state S, with the contract required of
\* every sweep until the trail is exhausted or a conflict is returned
RECURSIVE TrailSwept(_)
TrailSwept(S) ==
    IF S.q_head < Len(S.trail)
    THEN /\ KindsSwept([S EXCEPT !.q_head = S.q_head + 1], S.trail[S.q_head + 1],
                       <<Binclause, Permanent, Removable>>)
         /\ LET r == propagate_once(S)
            IN  r.confl # NULL_CLAUSE \/ TrailSwept(r.st)
    ELSE TRUE

\* C29: in every sweep that propagate makes over the watch list of a trail
\* literal p, ended normally or by a conflict midway, no relinked clause comes
\* back to p's list (the replacement watch is never the negation of p), and at
\* the end p's list holds exactly the clauses of the old list that were not
\* relinked, each once; no clause is lost, duplicated or linked in a cycle.
C29_SweepKeepsLists ==
    pc = "propagate" => TrailSwept(Cur)

\* propagate has returned a conflict met midway in a sweep: the conflicting
\* clause was linked behind a clause kept before it and the unexamined rest of
\* the list follows it
C29_Witness ==
    /\ pc = "branch"
    /\ local.ci # NULL_CLAUSE
    /\ q_head >= 1
    /\ LET c == clause_of(Cur, local.ci)
           pk == cp[to_kind(local.ci)]
       IN  /\ c.lit[2] = negate(trail[q_head])
           /\ c.next_watcher[2] # NULL_INDEX
           /\ pk.watcher[trail[q_head]] # to_index(local.ci)

\* C30: uncheck_enqueue and uncheck_assume are called only on a variable whose
\* assignment is BOTTOM, in propagation, in the assertion of a learnt clause
\* and in decisions: the first literal a step pushes on the trail belongs to
\* an unassigned variable, no variable is twice on the trail afterwards, and
\* every assigned variable is on the trail (so that a push on an assigned
\* variable would show as a second entry).
C30_PushOnlyUnassigned ==
    [][/\ \A i, j \in DOMAIN trail' : i # j => vi(trail'[i]) # vi(trail'[j])
       /\ \A v \in 1..num_vars :
             vars'[v].assign # BOTTOM => \E k \in DOMAIN trail' : vi(trail'[k]) = v
       /\ (Len(trail') > Len(trail) /\ SubSeq(trail', 1, Len(trail)) = trail) =>
             vars[vi(trail'[Len(trail) + 1])].assign = BOTTOM]_solver_vars

\* the trail holds a decision, a literal implied by a clause of the problem
\* and a literal asserted by a learnt clause
C30_Witness ==
    /\ \E k \in DOMAIN trail :
          vars[vi(trail[k])].reason = NULL_CLAUSE /\ vars[vi(trail[k])].level >= 1
    /\ \E k \in DOMAIN trail :
          /\ vars[vi(trail[k])].reason # NULL_CLAUSE
          /\ ~clause_of(Cur, vars[vi(trail[k])].reason).learnt
    /\ \E k \in DOMAIN trail :
          /\ vars[vi(trail[k])].reason # NULL_CLAUSE
          /\ clause_of(Cur, vars[vi(trail[k])].reason).learnt

\* the Dead records of a partition are exactly the records of its recycle
\* list, each once and with both watches RECYCLE_LIT, and the garbage list is empty
Recycled(pk) ==
    /\ pk.watcher[negate(GARBAGE_LIT)] = NULL_INDEX
    /\ \A ci \in DOMAIN pk.clauses :
          /\ Count(ci, WatchChain(pk, negate(RECYCLE_LIT))) = IF pk.clauses[ci].dead THEN 1 ELSE 0
          /\ pk.clauses[ci].dead => pk.clauses[ci].lit = <<RECYCLE_LIT, RECYCLE_LIT>>

\* C31: when garbage_collect has returned (in reduce and in simplify), every
\* Dead record is on the recycle list with its literal vector cleared, and the
\* garbage list is empty.
C31_RecycledAndCleared ==
    pc \in {"reduced", "simplified"} =>
        \A k \in DOMAIN cp :
            /\ Recycled(cp[k])
            /\ \A ci \in DOMAIN cp[k].clauses : cp[k].clauses[ci].dead => cp[k].clauses[ci].lits = <<>>

\* the same without the clearing: the Dead records are on the recycle list and
\* the garbage list is empty
C31_RecycledListed ==
    pc \in {"reduced", "simplified"} => \A k \in DOMAIN cp : Recycled(cp[k])

\* the candidates of a reduction that starts in the current state, and those
\* of them that the step marks Dead
ReduceCandidates == SeqSet(reduce_candidates(cp[Removable].clauses, 1))

\* C32: the clauses reduce marks Dead are taken from the live, unlocked
\* Removable clauses, and each of them is no better in the order (rank
\* ascending, activity descending) than every candidate that is kept.
C32_VictimsAreWorst ==
    [][(pc = "reduce" /\ pc' = "reduced") =>
          LET cs == cp[Removable].clauses
              dead == {i \in DOMAIN cs : ~cs[i].dead /\ cp'[Removable].clauses[i].dead}
          IN  /\ dead \subseteq ReduceCandidates
              /\ \A d \in dead : \A k \in ReduceCandidates \ dead :
                    clause_cmp(cs[d], cs[k]) >= 0]_solver_vars

\* the number of live records of every partition
LiveCount(pks) == [k \in DOMAIN pks |-> Cardinality({i \in DOMAIN pks[k].clauses : ~pks[k].clauses[i].dead})]

\* the partition add_learnt chooses for a clause of n literals of the given LBD
LearntKind(n, lbd) ==
    IF n = 2 THEN Binclause
    ELSE IF counters.chan_seok /\ lbd <= CO_LBD_BOUND THEN Permanent
    ELSE Removable

\* the step of search() that installs the learnt clause routes it as add_learnt
\* says, and a unit clause gets reason NULL_CLAUSE and no record
LearntRouted ==
    (pc = "learn" /\ pc' # "learn") =>
        LET v == an_learnt_lits
            x == vars'[vi(v[1])]
        IN  IF Len(v) = 1
            THEN /\ x.assign = lbool(v[1])
                 /\ x.reason = NULL_CLAUSE
                 /\ LiveCount(cp') = LiveCount(cp)
            ELSE LET k == LearntKind(Len(v), local'.lbd)
                     c == cp'[k].clauses[to_index(x.reason)]
                 IN  /\ x.reason # NULL_CLAUSE
                     /\ to_kind(x.reason) = k
                     /\ to_index(x.reason) \in DOMAIN cp'[k].clauses
                     /\ ~c.dead /\ c.learnt
                     /\ SeqSet(ClauseLits(c)) = SeqSet(v)
                     /\ LiveCount(cp') = [LiveCount(cp) EXCEPT ![k] = @ + 1]
                     /\ c.activity \in {counters.cla_inc, rescaled(counters.cla_inc)}

\* C33: a newly learnt clause is routed by length and LBD: a clause of one
\* literal is enqueued as a unit at level 0 with reason NULL_CLAUSE and gets no
\* clause record; a clause of two literals goes to Binclause; a longer one goes
\* to Permanent when the ChanSeok policy is active and its LBD is within
\* CO_LBD_BOUND, to Removable otherwise, its activity bumped by the current increment.
C33_LearntRouting ==
    [][/\ LearntRouted
       /\ (pc = "learn" /\ pc' # "learn" /\ Len(an_learnt_lits) = 1) =>
             vars'[vi(an_learnt_lits[1])].level = 0]_solver_vars

\* the routing alone, without the level of the unit
C33_RoutingByLengthAndLbd == [][LearntRouted]_solver_vars

\* C34: when a learnt clause of two or more literals is installed, its
\* position 0 holds the asserting literal and its position 1 a literal whose
\* decision level is the greatest among all its literals other than the
\* asserting one.
C34_SecondWatchHasMaxLevel ==
    [][(pc = "learn" /\ pc' # "learn" /\ Len(an_learnt_lits) >= 2) =>
          LET c == clause_of(Cur', vars'[vi(an_learnt_lits[1])].reason)
          IN  /\ c.lit[1] = an_learnt_lits[1]
              /\ \A k \in 2..Len(an_learnt_lits) :
                    vars'[vi(an_learnt_lits[k])].level <= vars'[vi(c.lit[2])].level
              /\ \E k \in 2..Len(an_learnt_lits) : c.lit[2] = an_learnt_lits[k]]_solver_vars

\* a learnt clause of three literals has just been installed whose literals
\* behind the asserting one are at different levels: the watch at position 1
\* is strictly above another of them
C34_Witness ==
    /\ pc \in {"block", "reduce"}
    /\ Len(an_learnt_lits) >= 3
    /\ vars[vi(an_learnt_lits[1])].reason # NULL_CLAUSE
    /\ \E k \in 3..Len(an_learnt_lits) :
          vars[vi(an_learnt_lits[k])].level <
             vars[vi(clause_of(Cur, vars[vi(an_learnt_lits[1])].reason).lit[2])].level

\* the rank of the clause in the middle of the candidates of reduce, sorted by clause_cmp
MedianRank ==
    LET cs == cp[Removable].clauses
        s == sort_by(cs, reduce_candidates(cs, 1))
    IN  cs[s[(Len(s) \div 2) + 1]].rank

\* the rank reduce looks at: that of permutation[keep]
KeepRank ==
    LET cs == cp[Removable].clauses
        perm == reduce_permutation(cs)
    IN  cs[perm[(Len(perm) \div 2) + 1]].rank

\* C35: each reduction raises next_reduction by the fixed step DB_INC_SIZE = 200,
\* and by an extra 1000 exactly when the rank of the median clause of the
\* sorted candidates is <= 5.
C35_ReductionStep ==
    [][(pc = "reduce" /\ pc' = "reduced") =>
          counters'.next_reduction =
              counters.next_reduction + DB_INC_SIZE + (IF MedianRank <= 5 THEN 1000 ELSE 0)]_solver_vars

\* the step as reduce computes it: the extra 1000 when the rank of
\* permutation[keep] is <= 4
C35_StepOfKeepRank ==
    [][(pc = "reduce" /\ pc' = "reduced") =>
          counters'.next_reduction =
              counters.next_reduction + DB_INC_SIZE + (IF KeepRank <= RankBonusBound THEN RankBonus ELSE 0)]_solver_vars

\* the identifiers that are the reason of an assigned variable
Reasons == {vars[v].reason : v \in {x \in 1..num_vars : vars[x].assign # BOTTOM}} \ {NULL_CLAUSE}

\* C36: a live clause of any partition has the Locked flag set if and only if
\* some currently assigned variable has its identifier as reason.
C36_LockedIffReason ==
    \A k \in DOMAIN cp : \A i \in DOMAIN cp[k].clauses :
        ~cp[k].clauses[i].dead => (cp[k].clauses[i].locked <=> <<k, i>> \in Reasons)

\* a learnt clause and a clause of the problem are locked as reasons while
\* another live clause, a reason before the last backjump, is unlocked again
C36_Witness ==
    /\ \E k \in DOMAIN cp : \E i \in DOMAIN cp[k].clauses :
          ~cp[k].clauses[i].dead /\ cp[k].clauses[i].locked /\ cp[k].clauses[i].learnt
    /\ \E k \in DOMAIN cp : \E i \in DOMAIN cp[k].clauses :
          ~cp[k].clauses[i].dead /\ cp[k].clauses[i].locked /\ ~cp[k].clauses[i].learnt
    /\ \E k \in DOMAIN cp : \E i \in DOMAIN cp[k].clauses :
          ~cp[k].clauses[i].dead /\ ~cp[k].clauses[i].locked
    /\ counters.conflicts >= 1

\* a record without its two links
Unlinked(c) == [c EXCEPT !.next_watcher = <<NULL_INDEX, NULL_INDEX>>]

\* the subsequence of the records of s that are not Dead in pk
LiveOf(pk, s) == SelectSeq(s, LAMBDA ci : ~pk.clauses[ci].dead)

\* garbage_collect on partition pk: every live record keeps its index, its
\* literals and its flags, a list that is not touched keeps its sequence, a
\* touched list keeps its live records in their order, and no ordinary
\* literal is touched afterwards
GcFrame(pk) ==
    LET g == garbage_collect(pk)
    IN  /\ DOMAIN g.clauses = DOMAIN pk.clauses
        /\ \A i \in DOMAIN pk.clauses :
              ~pk.clauses[i].dead => Unlinked(g.clauses[i]) = Unlinked(pk.clauses[i])
        /\ \A l \in 2..(2 * num_vars + 1) :
              /\ ~pk.touched[l] => WatchChain(g, l) = WatchChain(pk, l)
              /\ pk.touched[l] => WatchChain(g, l) = LiveOf(pk, WatchChain(pk, l))
              /\ ~g.touched[l]

\* the partition k as simplify hands it to garbage_collect
SimplifyMarked(k) == simplify_mark(simplify_reasons(Cur, 1).cp[k], simplify_reasons(Cur, 1).vars)

\* the Removable partition as reduce hands it to garbage_collect
ReduceMarked ==
    reduce_mark(cp[Removable], reduce_permutation(cp[Removable].clauses),
                (Len(reduce_permutation(cp[Removable].clauses)) \div 2) + 1)

\* C37: garbage_collect changes no live clause: index, literals and flags are
\* kept; a list that was not touched keeps its sequence, a touched list keeps
\* its live clauses in their relative order, and the touched flags of all
\* ordinary literals are false afterwards. Stated for the calls simplify and
\* reduce are about to make.
C37_GcKeepsLiveClauses ==
    /\ pc = "simplify" => \A k \in DOMAIN cp : GcFrame(SimplifyMarked(k))
    /\ (pc = "reduce" /\ reduce_permutation(cp[Removable].clauses) # <<>>) => GcFrame(ReduceMarked)

\* simplify is about to collect a partition in which a touched list holds a
\* Dead record in front of a live one
C37_Witness ==
    /\ pc = "simplify"
    /\ \E k \in DOMAIN cp : \E l \in 2..(2 * num_vars + 1) :
          LET pk == SimplifyMarked(k)
              s == WatchChain(pk, l)
          IN  /\ pk.touched[l]
              /\ \E a, b \in DOMAIN s : a < b /\ pk.clauses[s[a]].dead /\ ~pk.clauses[s[b]].dead

\* C38: whenever search invokes reduce, a live, unlocked Removable clause
\* exists: the candidate vector of reduce is not empty, so that its assertion
\* holds and permutation[1..] and permutation[keep] are within range.
C38_ReduceHasCandidate ==
    pc = "reduce" => reduce_candidates(cp[Removable].clauses, 1) # <<>>

\* C39: the 2-bit kind flag of every clause record equals the kind of the
\* partition that stores it, for the records created fresh and for the
\* records new_clause takes from the recycle list.
C39_KindFlagIsPartition ==
    \A k \in DOMAIN cp : \A i \in DOMAIN cp[k].clauses : cp[k].clauses[i].kind = k

\* the same for the records that have never been recycled
C39_FreshKindFlagIsPartition ==
    [][\A k \in DOMAIN cp : \A i \in DOMAIN cp'[k].clauses :
          (i \notin DOMAIN cp[k].clauses \/ (cp[k].clauses[i].kind = k /\ ~cp[k].clauses[i].dead))
              => cp'[k].clauses[i].kind = k]_solver_vars

\* heap and idxs are mutually inverse permutations of 1..num_vars, idxs[0] is
\* within 0..num_vars, and the members are the variables at the positions 1..idxs[0]
HeapWellFormed(h) ==
    /\ DOMAIN h.heap = 0..num_vars
    /\ DOMAIN h.idxs = 0..num_vars
    /\ \A v \in 1..num_vars : h.idxs[v] \in 1..num_vars /\ h.heap[h.idxs[v]] = v
    /\ \A p \in 1..num_vars : h.heap[p] \in 1..num_vars /\ h.idxs[h.heap[p]] = p
    /\ h.idxs[0] \in 0..num_vars
    /\ HeapMembers(h) = {h.heap[p] : p \in 1..h.idxs[0]}

\* C40: after every heap operation heap and idxs are mutually inverse
\* permutations of 1..N (heap[idxs[v]] = v), idxs[0] stays within 0..N and
\* exactly the variables at the positions 1..idxs[0] are members. Stated for
\* the heap of every reachable state and for the result of each operation
\* (insert, update, get_root on a heap that is not empty, rebuild) on it.
C40_HeapIsPermutation ==
    /\ HeapWellFormed(var_order)
    /\ \A v \in 1..num_vars :
          /\ HeapWellFormed(heap_insert(var_order, vars, v))
          /\ HeapWellFormed(heap_update(var_order, vars, v))
    /\ var_order.idxs[0] > 0 => HeapWellFormed(get_root(var_order, vars).heap)
    /\ HeapWellFormed(heap_rebuild(var_order, vars))

\* after a conflict the heap has lost some variables to get_root, got some
\* back from cancel_until, and no longer stores them in index order
C40_Witness ==
    /\ counters.conflicts >= 1
    /\ var_order.idxs[0] \in 2..(num_vars - 1)
    /\ \E p \in 1..var_order.idxs[0] : var_order.heap[p] # p
    /\ \E v \in 1..num_vars : ~heap_contains(var_order, v) /\ var_order.idxs[v] # v

====
